---- MODULE Spec2Model ----
(***************************************************************************)
(* A model of the borsh binary codec: BorshSerialize (src/borsh/src/ser),  *)
(* BorshDeserialize (src/borsh/src/de) and the root entry points           *)
(* from_slice / try_from_slice / from_reader / try_from_reader, together   *)
(* with the bounded bulk byte reader <u8>::vec_from_reader.                *)
(*                                                                         *)
(* Types are named by their Rust spelling ("Vec<u8>"); TypeTable gives the *)
(* shape of each.  In-memory values:                                       *)
(*   integers up to 32 bits   an Int (u32 restricted to values < 2^31)     *)
(*   u64 / usize / isize      W64 triple <<h, m, l>> = h*2^48 + m*2^24 + l *)
(*   bool                     BOOLEAN                                      *)
(*   Option<T>                <<>> (None) or <<x>> (Some(x))               *)
(*   Result<T, E>             [ok |-> BOOLEAN, v |-> payload]              *)
(*   Vec / String / [T; N]    a sequence of elements (String: UTF-8 bytes) *)
(*   tuples                   a sequence of the fields                     *)
(*   HashMap / HashSet        the entries in the table's iteration order   *)
(*   BTreeMap / BTreeSet      the entries in ascending key order           *)
(*   SocketAddrV6             [ip, port, flowinfo, scope_id]               *)
(* A byte source is a sequence whose items are bytes 0..255 or marks:       *)
(* IoErrMark, the point at which the underlying transport reports a        *)
(* failure; IntrMark, a read that returns ErrorKind::Interrupted; CutMark, *)
(* the end of a short read; ZeroMark, a read that returns Ok(0).           *)
(***************************************************************************)
EXTENDS Integers, Sequences, FiniteSets, TLC

VARIABLES
    pc,         \* "idle" | "encoded" | "paired" | "fed" | "decoded" | "fed_decoded" |
                \* "vfr_loop" | "vfr_ok" | "vfr_err"
    ty,         \* the Rust type T the call is instantiated with
    strict,     \* cargo feature de_strict_order
    ptr_width,  \* target pointer width in bits (32 or 64)
    val,        \* the value handed to serialize
    enc,        \* result of serializing val into a Vec<u8>
    other,      \* a second value of the same type
    enc2,       \* result of serializing other
    input,      \* the bytes / byte source handed to the decoder
    via,        \* the decode entry point that produced res
    res,        \* result of the decode call
    w_cap,      \* bytes the writer handed to serialize accepts before a write
                \* of it fails (NoLimit: its writes never fail)
    r_len,      \* vec_from_reader: declared length `len`
    r_vec,      \* vec_from_reader: vec.len()
    r_pos,      \* vec_from_reader: pos
    r_src,      \* vec_from_reader: bytes the source can still yield
    r_req,      \* vec_from_reader: length of the slice passed to the last read
    r_got,      \* vec_from_reader: what the last read returned
    r_small,    \* vec_from_reader: short reads taken so far (bounded)
    r_err,      \* vec_from_reader: the error returned
    a_n,        \* [T; N] decode: N
    a_src,      \* [T; N] decode: the bytes the reader still holds
    a_init,     \* [T; N] decode: ArrayDropGuard.init_count
    a_slots,    \* [T; N] decode: ArrayDropGuard.buffer, per slot "uninit" | "live" |
                \* "dropped" | "undefined" (a drop of a slot holding no live value)
    a_drops,    \* [T; N] decode: per slot, the calls of T::drop on it
    a_made,     \* elements constructed in the array decodes that failed
    a_freed,    \* calls of T::drop made by the array decodes that failed
    a_runs,     \* array decodes started
    k_sync,     \* the synchronous decode, as a machine run step by step
    k_async,    \* the async decode: the state its future holds between polls
    k_wait,     \* the async call is suspended: its last poll returned Pending
    k_susp,     \* suspensions so far (bounded)
    k_writes,   \* the write_all calls the async encode has completed
    k_out,      \* the bytes the async encode has written
    use_discriminant,   \* #[borsh(use_discriminant = ..)] of the derived enum
    rc_heap,    \* the RcBox allocations: contents and strong count, by address
    rc_refs,    \* the Vec<Rc<u16>> handed to serialize, as addresses
    rc_out,     \* the Vec<Rc<u16>> the decode returned, as addresses
    r_reads,    \* vec_from_reader: calls of reader.read made so far
    s_defs,     \* schema: the definitions map, as a set of (declaration, definition)
    s_stack,    \* schema: the add_definitions_recursively calls still to be made
    s_calls,    \* schema: calls made in the current collection
    s_runs      \* schema: collections started on this map

codec_vars == <<ty, strict, ptr_width, val, enc, other, enc2, input, via, res, w_cap>>
reader_vars == <<r_len, r_vec, r_pos, r_src, r_req, r_got, r_small, r_err>>
array_vars == <<a_n, a_src, a_init, a_slots, a_drops, a_made, a_freed, a_runs>>
async_vars == <<k_sync, k_async, k_wait, k_susp, k_writes, k_out>>
rc_vars == <<use_discriminant, rc_heap, rc_refs, rc_out>>
schema_vars == <<s_defs, s_stack, s_calls, s_runs>>
derive_vars == <<rc_vars, r_reads, schema_vars>>
vars == <<pc, codec_vars, reader_vars, array_vars, async_vars, derive_vars>>

(***************************************************************************)
(* Bounds of the model.                                                    *)
(***************************************************************************)
\* longest Vec / String / map / set enumerated
MaxLen == 2
\* most short (partial) reads a source returns during one vec_from_reader
MaxShortReads == 2
\* largest N of a [T; N] decoded element by element
MaxArrayLen == 3
\* array decodes made one after the other
MaxDecodes == 2
\* items (bytes and marks) of a source handed to the Vec<u8> decoders
MaxSourceItems == 4
\* times one async call is suspended
MaxSuspends == 2
\* largest number of bytes a failing writer accepts
MaxSinkBytes == 6
MaxRefs == 3
MaxSchemaRuns == 2
MaxSchemaCalls == 12

(***************************************************************************)
(* Generic helpers.                                                        *)
(***************************************************************************)
Min(a, b) == IF a <= b THEN a ELSE b

SeqUpTo(S, n) == UNION {[1..k -> S] : k \in 0..n}

Range(s) == {s[i] : i \in 1..Len(s)}

RECURSIVE Flatten(_)
Flatten(ss) == IF ss = <<>> THEN <<>> ELSE Head(ss) \o Flatten(Tail(ss))

Drop(s, n) == SubSeq(s, n + 1, Len(s))
Take(s, n) == SubSeq(s, 1, n)

(***************************************************************************)
(* io::Error values.                                                       *)
(***************************************************************************)
\* kind, message and, where the message names one, the offending byte
NoError == [kind |-> "", msg |-> "", byte |-> -1]
IoError(kind, msg) == [kind |-> kind, msg |-> msg, byte |-> -1]
IoErrorByte(kind, msg, b) == [kind |-> kind, msg |-> msg, byte |-> b]

ERROR_NOT_ALL_BYTES_READ == "Not all bytes read"
ERROR_UNEXPECTED_LENGTH_OF_INPUT == "Unexpected length of input"
ERROR_INVALID_ZERO_VALUE == "Expected a non-zero value"
FLOAT_NAN_ERR == "For portability reasons we do not allow to serialize NaNs."
ERROR_OVERFLOW_ON_MACHINE_WITH_32_BIT_ISIZE == "Overflow on machine with 32 bit isize"
ERROR_OVERFLOW_ON_MACHINE_WITH_32_BIT_USIZE == "Overflow on machine with 32 bit usize"
ERROR_WRONG_ORDER_OF_KEYS == "keys were not serialized in ascending order"

\* what std's read_exact reports when the source ends early
UnexpectedEof == IoError("UnexpectedEof", "failed to fill whole buffer")
\* a failure of the underlying transport, passed through as is
TransportFailure == IoError("Other", "transport failure")
\* a read the operating system interrupted; it may be retried
Interrupted == IoError("Interrupted", "interrupted")

Ok(v, rest) == [ok |-> TRUE, val |-> v, rest |-> rest, err |-> NoError]
Err(e, rest) == [ok |-> FALSE, val |-> <<>>, rest |-> rest, err |-> e]

unexpected_eof_to_unexpected_length_of_input(e) ==
    IF e.kind = "UnexpectedEof"
    THEN IoError("InvalidData", ERROR_UNEXPECTED_LENGTH_OF_INPUT)
    ELSE e

(***************************************************************************)
(* Byte sources.  `&[u8]` and any other Read are driven through            *)
(* read_exact: n bytes, or UnexpectedEof when the source ends first, or    *)
(* the transport's own failure.                                            *)
(***************************************************************************)
IoErrMark == -1
IntrMark == -2
CutMark == -3
ZeroMark == -4

\* std's default Read::read_exact: read until the buffer is full; a read of
\* Ok(0) ends the loop, ErrorKind::Interrupted is retried, any other error
\* is returned
RECURSIVE read_exact_loop(_, _, _)
read_exact_loop(src, n, got) ==
    IF n = 0 THEN Ok(got, src)
    ELSE IF src = <<>> THEN Err(UnexpectedEof, <<>>)
    ELSE IF Head(src) = IoErrMark THEN Err(TransportFailure, Tail(src))
    ELSE IF Head(src) = ZeroMark THEN Err(UnexpectedEof, Tail(src))
    ELSE IF Head(src) \in {IntrMark, CutMark} THEN read_exact_loop(Tail(src), n, got)
    ELSE read_exact_loop(Tail(src), n - 1, Append(got, Head(src)))

read_exact(src, n) ==
    LET m == Min(n, Len(src))
    IN  IF \E i \in 1..m : src[i] < 0
        THEN read_exact_loop(src, n, <<>>)
        ELSE IF Len(src) < n
        THEN Err(UnexpectedEof, <<>>)
        ELSE Ok(Take(src, n), Drop(src, n))

\* Read::read into a buffer of `space` > 0 bytes: the bytes up to the next
\* mark (at most `space`), Ok of no bytes at the end of the source or at a
\* ZeroMark, or the error of the mark at the head of the source
RECURSIVE read(_, _)
read(src, space) ==
    IF src = <<>> THEN Ok(<<>>, <<>>)
    ELSE IF Head(src) = IoErrMark THEN Err(TransportFailure, Tail(src))
    ELSE IF Head(src) = IntrMark THEN Err(Interrupted, Tail(src))
    ELSE IF Head(src) = ZeroMark THEN Ok(<<>>, Tail(src))
    ELSE IF Head(src) = CutMark THEN read(Tail(src), space)
    ELSE LET m == Min(space, Len(src))
             n == CHOOSE k \in 1..m :
                     /\ \A i \in 1..k : src[i] >= 0
                     /\ k = m \/ src[k + 1] < 0
         IN  Ok(Take(src, n), Drop(src, n))

(***************************************************************************)
(* Fixed-width integers: to_le_bytes / from_le_bytes.                      *)
(***************************************************************************)
Pow256(i) == CASE i = 0 -> 1 [] i = 1 -> 256 [] i = 2 -> 65536 [] i = 3 -> 16777216

\* two's-complement little-endian bytes of v, w <= 4 bytes
to_le_bytes(v, w) == [i \in 1..w |-> (v \div Pow256(i - 1)) % 256]

RECURSIVE SumLe(_, _)
SumLe(bytes, i) ==
    IF i > Len(bytes) THEN 0 ELSE bytes[i] * Pow256(i - 1) + SumLe(bytes, i + 1)

\* unsigned value of little-endian bytes (at most 4, below 2^31)
from_le_bytes_unsigned(bytes) == SumLe(bytes, 1)

\* signed value of little-endian bytes (at most 4)
from_le_bytes_signed(bytes) ==
    LET w == Len(bytes)
        top == bytes[w]
        low == SumLe(Take(bytes, w - 1), 1)
    IN  (IF top >= 128 THEN top - 256 ELSE top) * Pow256(w - 1) + low

\* 64-bit integers: <<h, m, l>> stands for h * 2^48 + m * 2^24 + l with
\* 0 <= m, l < 2^24; h is 0..65535 (u64) or -32768..32767 (i64).
Limb == Pow256(3)
W64(h, m, l) == <<h, m, l>>
W64FromInt(i) == W64(IF i < 0 THEN -1 ELSE 0, (i \div Limb) % Limb, i % Limb)

w64_to_le_bytes(v) == to_le_bytes(v[3], 3) \o to_le_bytes(v[2], 3) \o to_le_bytes(v[1], 2)

u64_from_le_bytes(bytes) ==
    W64(from_le_bytes_unsigned(SubSeq(bytes, 7, 8)),
        from_le_bytes_unsigned(SubSeq(bytes, 4, 6)),
        from_le_bytes_unsigned(SubSeq(bytes, 1, 3)))

i64_from_le_bytes(bytes) ==
    W64(from_le_bytes_signed(SubSeq(bytes, 7, 8)),
        from_le_bytes_unsigned(SubSeq(bytes, 4, 6)),
        from_le_bytes_unsigned(SubSeq(bytes, 1, 3)))

\* f32 / f64 by the fields of their bit pattern: sign bit, biased exponent
\* (8 / 11 bits) and fraction (23 bits in lo / 52 bits as hi * 2^24 + lo)
Float(sign, exp, hi, lo) == [sign |-> sign, exp |-> exp, hi |-> hi, lo |-> lo]
ExpMax(w) == IF w = 4 THEN 255 ELSE 2047
HalfLimb == Limb \div 2

\* a test that lets signalling NaNs (quiet bit clear) through
is_quiet_nan(v, w) ==
    v.exp = ExpMax(w) /\ (IF w = 4 THEN v.lo >= HalfLimb \div 2 ELSE v.hi >= 8 * Limb)

\* f32::is_nan / f64::is_nan: exponent all ones, fraction not zero
is_nan(v, w) == v.exp = ExpMax(w) /\ (v.hi # 0 \/ v.lo # 0)

\* self.to_bits().to_le_bytes()
float_to_le_bytes(v, w) ==
    IF w = 4
    THEN to_le_bytes(v.lo + (v.exp % 2) * HalfLimb, 3) \o <<v.exp \div 2 + 128 * v.sign>>
    ELSE to_le_bytes(v.lo, 3) \o to_le_bytes(v.hi % Limb, 3)
         \o <<v.hi \div Limb + 16 * (v.exp % 16), v.exp \div 16 + 128 * v.sign>>

\* $type::from_bits($int_type::from_le_bytes(buf))
float_from_le_bytes(bytes, w) ==
    IF w = 4
    THEN LET low == from_le_bytes_unsigned(Take(bytes, 3))
         IN  Float(bytes[4] \div 128, (bytes[4] % 128) * 2 + low \div HalfLimb,
                   0, low % HalfLimb)
    ELSE Float(bytes[8] \div 128, (bytes[8] % 128) * 16 + bytes[7] \div 16,
               (bytes[7] % 16) * Limb + from_le_bytes_unsigned(SubSeq(bytes, 4, 6)),
               from_le_bytes_unsigned(Take(bytes, 3)))

\* a conversion that keeps the low bits instead of failing (`as usize`)
usize_truncating(v, width) == TRUE

\* usize::try_from(u64) / isize::try_from(i64) succeed
usize_try_from(v, width) == width = 64 \/ (v[1] = 0 /\ v[2] < 256)
isize_try_from(v, width) ==
    \/ width = 64
    \/ v[1] = 0 /\ v[2] < 128
    \/ v[1] = -1 /\ v[2] >= Limb - 128

(***************************************************************************)
(* The types the model instantiates the codec with.                        *)
(***************************************************************************)
Ty(kind, w, a, b) == [kind |-> kind, w |-> w, a |-> a, b |-> b]

TypeTable ==
       ("u8"   :> Ty("uint", 1, "", ""))
    @@ ("u16"  :> Ty("uint", 2, "", ""))
    @@ ("u32"  :> Ty("uint", 4, "", ""))
    @@ ("i8"   :> Ty("sint", 1, "", ""))
    @@ ("i32"  :> Ty("sint", 4, "", ""))
    @@ ("u64"  :> Ty("u64", 8, "", ""))
    @@ ("usize" :> Ty("usize", 8, "", ""))
    @@ ("isize" :> Ty("isize", 8, "", ""))
    @@ ("f32"  :> Ty("float", 4, "", ""))
    @@ ("f64"  :> Ty("float", 8, "", ""))
    @@ ("bool" :> Ty("bool", 1, "", ""))
    @@ ("NonZeroU8"  :> Ty("nonzero", 1, "u8", ""))
    @@ ("NonZeroU16" :> Ty("nonzero", 2, "u16", ""))
    @@ ("NonZeroI32" :> Ty("nonzero", 4, "i32", ""))
    @@ ("()"   :> Ty("unit", 0, "", ""))
    @@ ("Option<u8>" :> Ty("option", 0, "u8", ""))
    @@ ("Option<Vec<u8>>" :> Ty("option", 0, "Vec<u8>", ""))
    @@ ("Result<u8, u16>" :> Ty("result", 0, "u8", "u16"))
    @@ ("Vec<u8>" :> Ty("vec", 0, "u8", ""))
    @@ ("Vec<u16>" :> Ty("vec", 0, "u16", ""))
    @@ ("Vec<u32>" :> Ty("vec", 0, "u32", ""))
    @@ ("Vec<(u8, u8)>" :> Ty("vec", 0, "(u8, u8)", ""))
    @@ ("Vec<Rc<u16>>" :> Ty("vec_rc", 0, "u16", ""))
    @@ ("A" :> Ty("enum", 0, "", ""))
    @@ ("MyEnum" :> Ty("enum", 0, "", ""))
    @@ ("Box<[()]>" :> Ty("boxed_slice", 0, "()", ""))
    @@ ("Vec<()>" :> Ty("vec", 0, "()", ""))
    @@ ("VecDeque<()>" :> Ty("vecdeque", 0, "()", ""))
    @@ ("LinkedList<()>" :> Ty("linkedlist", 0, "()", ""))
    @@ ("HashMap<(), u8>" :> Ty("hashmap", 0, "()", "u8"))
    @@ ("HashSet<()>" :> Ty("hashset", 0, "()", ""))
    @@ ("BTreeMap<(), u8>" :> Ty("btreemap", 0, "()", "u8"))
    @@ ("BTreeSet<()>" :> Ty("btreeset", 0, "()", ""))
    @@ ("String" :> Ty("string", 0, "", ""))
    @@ ("[u8; 2]" :> Ty("array", 2, "u8", ""))
    @@ ("[u16; 2]" :> Ty("array", 2, "u16", ""))
    @@ ("(u8, u8)" :> Ty("tuple", 0, "u8", "u8"))
    @@ ("(u8, u16)" :> Ty("tuple", 0, "u8", "u16"))
    @@ ("(Vec<u8>, u8)" :> Ty("tuple", 0, "Vec<u8>", "u8"))
    @@ ("HashMap<u8, u8>" :> Ty("hashmap", 0, "u8", "u8"))
    @@ ("HashSet<u8>" :> Ty("hashset", 0, "u8", ""))
    @@ ("BTreeMap<u8, u8>" :> Ty("btreemap", 0, "u8", "u8"))
    @@ ("BTreeSet<u8>" :> Ty("btreeset", 0, "u8", ""))
    @@ ("hashes_serde::HashMap<u8, u8>" :> Ty("hs_hashmap", 0, "u8", "u8"))
    @@ ("hashes_serde::HashSet<u8>" :> Ty("hs_hashset", 0, "u8", ""))
    @@ ("Ipv4Addr" :> Ty("ipv4", 4, "", ""))
    @@ ("Ipv6Addr" :> Ty("ipv6", 16, "", ""))
    @@ ("IpAddr" :> Ty("ipaddr", 0, "", ""))
    @@ ("SocketAddrV4" :> Ty("sockv4", 0, "", ""))
    @@ ("SocketAddrV6" :> Ty("sockv6", 0, "", ""))
    @@ ("SocketAddr" :> Ty("sockaddr", 0, "", ""))

Kind(t) == TypeTable[t].kind

\* the tuple type (K, V)
EntryType(kt, vt) == CHOOSE t \in DOMAIN TypeTable :
    TypeTable[t].kind = "tuple" /\ TypeTable[t].a = kt /\ TypeTable[t].b = vt

\* the types a call is instantiated with ("Vec<(u8, u8)>" only shapes byte
\* strings handed to the map decoders; the collections of zero-sized
\* elements are instantiated on their own)
\* the collections of a zero-sized element or key type
ZstTypes == {"Box<[()]>", "Vec<()>", "VecDeque<()>", "LinkedList<()>",
             "HashMap<(), u8>", "HashSet<()>", "BTreeMap<(), u8>", "BTreeSet<()>"}

\* the enums with derived impls
EnumTypes == {"A", "MyEnum"}

Types == DOMAIN TypeTable \ ({"Vec<(u8, u8)>", "Vec<Rc<u16>>"} \cup ZstTypes \cup EnumTypes)

MapKinds == {"hashmap", "btreemap", "hs_hashmap"}
SetKinds == {"hashset", "btreeset", "hs_hashset"}
\* kinds whose in-memory iteration order is the hash table's
HashKinds == {"hashmap", "hashset", "hs_hashmap", "hs_hashset"}

\* <K as Ord>::cmp(a, b).is_lt() for the integer key types
KeyLt(a, b) == a < b

DistinctKeys(keys) == \A i, j \in 1..Len(keys) : i # j => keys[i] # keys[j]
Ascending(keys) == \A i \in 1..Len(keys) - 1 : KeyLt(keys[i], keys[i + 1])
Keys(entries) == [i \in 1..Len(entries) |-> entries[i][1]]

(***************************************************************************)
(* The values enumerated per type.  Elements and fields of compound types  *)
(* are drawn from ElemValues, a smaller sample of the scalar types.        *)
(***************************************************************************)
M24 == Limb - 1
Ipv6Zero == [i \in 1..16 |-> 0]
Ipv6Loopback == [i \in 1..16 |-> IF i = 16 THEN 1 ELSE 0]
Ipv4Values == {<<192, 168, 0, 1>>, <<0, 0, 0, 0>>}
Ipv6Values == {Ipv6Zero, Ipv6Loopback}
SocketAddrV4Values == [ip : Ipv4Values, port : {0, 8080}]
SocketAddrV6Values == [ip : Ipv6Values, port : {0, 8080}, flowinfo : {0, 7}, scope_id : {0, 3}]

\* UTF-8 encodings of the characters 'a' and U+00E9
Chars == {<<97>>, <<195, 169>>}

ScalarValues(t, width) ==
    CASE t = "u8"    -> {0, 1, 3, 5, 9, 127, 128, 255}
      [] t = "u16"   -> {0, 1, 255, 256, 8080, 65535}
      [] t = "u32"   -> {0, 1, 2, 65536, 1000000000, 2147483647}
      [] t = "i8"    -> {-128, -1, 0, 100, 127}
      [] t = "i32"   -> {-2147483647 - 1, -100, 0, 100, 2147483647}
      [] t = "u64"   -> {W64(0, 0, 0), W64(0, 0, 100), W64(0, 65536, 0), W64(0, 256, 0),
                         W64(65535, M24, M24)}
      [] t = "usize" -> IF width = 64
                        THEN {W64(0, 0, 0), W64(0, 0, 100), W64(0, 65536, 0), W64(65535, M24, M24)}
                        ELSE {W64(0, 0, 0), W64(0, 0, 100), W64(0, 255, M24)}
      [] t = "isize" -> IF width = 64
                        THEN {W64(-32768, 0, 0), W64FromInt(-100), W64FromInt(100),
                              W64(32767, M24, M24)}
                        ELSE {W64(-1, Limb - 128, 0), W64FromInt(-100), W64FromInt(100),
                              W64(0, 127, M24)}
      \* 0.0, -0.0, 1.0, the least subnormal, the greatest finite value,
      \* both infinities, a quiet NaN, signalling NaNs, a negative NaN
      [] t = "f32"   -> {Float(0, 0, 0, 0), Float(1, 0, 0, 0), Float(0, 127, 0, 0),
                         Float(0, 0, 0, 1), Float(0, 254, 0, HalfLimb - 1),
                         Float(0, 255, 0, 0), Float(1, 255, 0, 0),
                         Float(0, 255, 0, HalfLimb \div 2), Float(0, 255, 0, 1),
                         Float(1, 255, 0, HalfLimb - 1)}
      [] t = "f64"   -> {Float(0, 0, 0, 0), Float(1, 0, 0, 0), Float(0, 1023, 0, 0),
                         Float(0, 0, 0, 1), Float(0, 2046, 16 * Limb - 1, M24),
                         Float(0, 2047, 0, 0), Float(1, 2047, 0, 0),
                         Float(0, 2047, 8 * Limb, 0), Float(0, 2047, 0, 1),
                         Float(0, 2047, 1, 0), Float(1, 2047, 16 * Limb - 1, M24)}
      [] t = "bool"  -> BOOLEAN
      [] t = "()"    -> {<<>>}

ElemValues(t) ==
    CASE t = "u8"  -> {3, 5, 255}
      [] t = "u16" -> {1, 256}
      [] t = "u32" -> {1, 2}

RECURSIVE Values(_, _)
Values(t, width) ==
    LET d == TypeTable[t]
        k == d.kind
        Small(u) == IF u \in {"u8", "u16", "u32"} THEN ElemValues(u) ELSE Values(u, width)
    IN  CASE k \in {"uint", "sint", "u64", "usize", "isize", "float", "bool", "unit"}
               -> ScalarValues(t, width)
          [] k = "nonzero" -> ScalarValues(d.a, width) \ {0}
          [] k = "option" -> {<<>>} \cup {<<x>> : x \in Small(d.a)}
          [] k = "result" -> [ok : {TRUE}, v : Small(d.a)] \cup [ok : {FALSE}, v : Small(d.b)]
          [] k = "vec"    -> SeqUpTo(Small(d.a), MaxLen)
          [] k = "string" -> {Flatten(cs) : cs \in SeqUpTo(Chars, MaxLen)}
          [] k = "array"  -> [1..d.w -> Small(d.a)]
          [] k = "tuple"  -> {<<x, y>> : x \in Small(d.a), y \in Small(d.b)}
          [] k \in {"hashmap", "hs_hashmap"} ->
                {s \in SeqUpTo(Small(d.a) \X Small(d.b), MaxLen) : DistinctKeys(Keys(s))}
          [] k = "btreemap" ->
                {s \in SeqUpTo(Small(d.a) \X Small(d.b), MaxLen) : Ascending(Keys(s))}
          [] k \in {"hashset", "hs_hashset"} ->
                {s \in SeqUpTo(Small(d.a), MaxLen) : DistinctKeys(s)}
          [] k = "btreeset" -> {s \in SeqUpTo(Small(d.a), MaxLen) : Ascending(s)}
          [] k = "ipv4"   -> Ipv4Values
          [] k = "ipv6"   -> Ipv6Values
          [] k = "ipaddr" -> [v6 : {FALSE}, ip : Ipv4Values] \cup [v6 : {TRUE}, ip : Ipv6Values]
          [] k = "sockv4" -> SocketAddrV4Values
          [] k = "sockv6" -> SocketAddrV6Values
          [] k = "sockaddr" -> [v6 : {FALSE}, addr : SocketAddrV4Values]
                               \cup [v6 : {TRUE}, addr : SocketAddrV6Values]

\* PartialEq of two values of type t: hash collections compare as sets of
\* entries, everything else structurally.
ValEq(t, a, b) ==
    IF Kind(t) \in HashKinds THEN Range(a) = Range(b) /\ Len(a) = Len(b) ELSE a = b

(***************************************************************************)
(* BorshSerialize::serialize into a Vec<u8> (whose writes never fail).     *)
(* The result carries the bytes written, also when serialize fails, and    *)
(* the buffers of the write_all calls that wrote them, in order.           *)
(***************************************************************************)
\* writer.write_all(bytes); an empty buffer reaches the writer with no write
SerOk(bytes) ==
    [ok |-> TRUE, bytes |-> bytes, err |-> NoError,
     writes |-> IF bytes = <<>> THEN <<>> ELSE <<bytes>>]
SerErr(e) == [ok |-> FALSE, bytes |-> <<>>, err |-> e, writes |-> <<>>]

\* a; b with `?` after a
SerThen(a, b) ==
    IF a.ok THEN [b EXCEPT !.bytes = a.bytes \o b.bytes, !.writes = a.writes \o b.writes]
    ELSE a

\* size_of::<T>() == 0
IsZst(t) == Kind(t) = "unit"
check_zst(t) ==
    IF IsZst(t)
    THEN SerErr(IoError("InvalidData", "Collections of zero-sized types are not allowed"))
    ELSE SerOk(<<>>)

\* u32::try_from(len).to_le_bytes(); the lengths of the model are below 2^31
len_prefix(n) == to_le_bytes(n, 4)

\* the entries as the table iterates them, left unsorted
unsorted(entries) == entries

\* stable insertion sort of entries by key: Vec::sort_by(|(a, _), (b, _)| a.cmp(b))
RECURSIVE sort_by_key(_)
sort_by_key(entries) ==
    IF entries = <<>> THEN <<>>
    ELSE LET e == entries[Len(entries)]
             init == sort_by_key(Take(entries, Len(entries) - 1))
             n == Cardinality({i \in 1..Len(init) : ~KeyLt(e[1], init[i][1])})
         IN  Take(init, n) \o <<e>> \o Drop(init, n)

\* a sort that leaves the greatest key first
sort_descending(keys) ==
    LET sorted == sort_by_key([i \in 1..Len(keys) |-> <<keys[i]>>])
    IN  [i \in 1..Len(keys) |-> sorted[Len(keys) + 1 - i][1]]

\* Vec::sort() of a vector of keys
sort(keys) ==
    LET sorted == sort_by_key([i \in 1..Len(keys) |-> <<keys[i]>>])
    IN  [i \in 1..Len(keys) |-> sorted[i][1]]

RECURSIVE serialize(_, _)
RECURSIVE serialize_each(_, _)
\* for item in data { item.serialize(writer)?; }
serialize_each(t, items) ==
    IF items = <<>> THEN SerOk(<<>>)
    ELSE SerThen(serialize(t, Head(items)), serialize_each(t, Tail(items)))

\* a slice written from its last item to its first
serialize_slice_reversed(t, data) ==
    serialize_each(t, [i \in 1..Len(data) |-> data[Len(data) + 1 - i]])

\* u8_slice gives the bytes themselves for T = u8, None for every other T
serialize_slice(t, data) ==
    IF t = "u8" THEN SerOk(data) ELSE serialize_each(t, data)

\* <[T] as BorshSerialize>::serialize
serialize_seq(t, data) ==
    SerThen(SerOk(len_prefix(Len(data))), serialize_slice(t, data))

\* (K, V) entries one after the other: key, then value
RECURSIVE serialize_entries(_, _, _)
serialize_entries(kt, vt, entries) ==
    IF entries = <<>> THEN SerOk(<<>>)
    ELSE SerThen(SerThen(serialize(kt, Head(entries)[1]), serialize(vt, Head(entries)[2])),
                 serialize_entries(kt, vt, Tail(entries)))

HashMap_serialize(kt, vt, v) ==
    SerThen(check_zst(kt),
        LET vec == sort_by_key(v)
        IN  SerThen(serialize("u32", Len(vec)), serialize_entries(kt, vt, vec)))

HashSet_serialize(t, v) ==
    SerThen(check_zst(t),
        LET vec == sort(v)
        IN  SerThen(serialize("u32", Len(vec)), serialize_each(t, vec)))

BTreeMap_serialize(kt, vt, v) ==
    SerThen(check_zst(kt),
        SerThen(serialize("u32", Len(v)), serialize_entries(kt, vt, v)))

BTreeSet_serialize(t, v) ==
    SerThen(check_zst(t), SerThen(serialize("u32", Len(v)), serialize_each(t, v)))

\* hashes_serde.rs: sort by partial_cmp, no zero-size check
hashes_serde_HashMap_serialize(kt, vt, v) ==
    LET vec == sort_by_key(v)
    IN  SerThen(serialize("u32", Len(vec)), serialize_entries(kt, vt, vec))

hashes_serde_HashSet_serialize(t, v) ==
    LET vec == sort(v)
    IN  SerThen(serialize("u32", Len(vec)), serialize_each(t, vec))

SocketAddrV4_serialize(v) == SerThen(SerOk(v.ip), serialize("u16", v.port))
SocketAddrV6_serialize(v) == SerThen(SerOk(v.ip), serialize("u16", v.port))

float_serialize(v, w) ==
    IF is_nan(v, w) THEN SerErr(IoError("InvalidData", FLOAT_NAN_ERR))
    ELSE SerOk(float_to_le_bytes(v, w))

serialize(t, v) ==
    LET d == TypeTable[t]
        k == d.kind
    IN  CASE k \in {"uint", "sint"} -> SerOk(to_le_bytes(v, d.w))
          [] k \in {"u64", "usize", "isize"} -> SerOk(w64_to_le_bytes(v))
          [] k = "float"  -> float_serialize(v, d.w)
          \* NonZero*: serialize(&self.get(), writer)
          [] k = "nonzero" -> serialize(d.a, v)
          [] k = "bool"   -> serialize("u8", IF v THEN 1 ELSE 0)
          [] k = "unit"   -> SerOk(<<>>)
          [] k = "option" -> IF v = <<>> THEN serialize("u8", 0)
                             ELSE SerThen(serialize("u8", 1), serialize(d.a, v[1]))
          [] k = "result" -> IF v.ok THEN SerThen(serialize("u8", 1), serialize(d.a, v.v))
                             ELSE SerThen(serialize("u8", 0), serialize(d.b, v.v))
          [] k = "vec"    -> SerThen(check_zst(d.a), serialize_seq(d.a, v))
          \* Box<T>: self.as_ref().serialize, here <[T]>::serialize
          [] k = "boxed_slice" -> serialize_seq(d.a, v)
          \* the two slices of a VecDeque, one after the other
          [] k = "vecdeque" -> SerThen(check_zst(d.a), serialize_seq(d.a, v))
          [] k = "linkedlist" ->
                SerThen(check_zst(d.a),
                    SerThen(SerOk(len_prefix(Len(v))), serialize_each(d.a, v)))
          [] k = "string" -> serialize_seq("u8", v)
          [] k = "array"  -> IF d.w = 0 THEN SerOk(<<>>)
                             ELSE IF d.a = "u8" THEN SerOk(v)
                             ELSE serialize_each(d.a, v)
          [] k = "tuple"  -> SerThen(serialize(d.a, v[1]), serialize(d.b, v[2]))
          [] k = "hashmap"  -> HashMap_serialize(d.a, d.b, v)
          [] k = "hashset"  -> HashSet_serialize(d.a, v)
          [] k = "btreemap" -> BTreeMap_serialize(d.a, d.b, v)
          [] k = "btreeset" -> BTreeSet_serialize(d.a, v)
          [] k = "hs_hashmap" -> hashes_serde_HashMap_serialize(d.a, d.b, v)
          [] k = "hs_hashset" -> hashes_serde_HashSet_serialize(d.a, v)
          [] k \in {"ipv4", "ipv6"} -> SerOk(v)
          [] k = "ipaddr" -> IF v.v6 THEN SerThen(SerOk(to_le_bytes(1, 1)), serialize("Ipv6Addr", v.ip))
                             ELSE SerThen(SerOk(to_le_bytes(0, 1)), serialize("Ipv4Addr", v.ip))
          [] k = "sockv4" -> SocketAddrV4_serialize(v)
          [] k = "sockv6" -> SocketAddrV6_serialize(v)
          [] k = "sockaddr" ->
                IF v.v6 THEN SerThen(serialize("u8", 1), serialize("SocketAddrV6", v.addr))
                ELSE SerThen(serialize("u8", 0), serialize("SocketAddrV4", v.addr))

(***************************************************************************)
(* serialize into a writer whose writes may fail.  serialize depends on    *)
(* its writer only through the `?` after each write, so its run over such  *)
(* a writer is the run of its write_all calls up to the first that fails.  *)
(***************************************************************************)
NoLimit == -1

\* a run that goes on writing after a write failed
RECURSIVE write_all_unchecked(_, _, _, _)
write_all_unchecked(chunks, cap, out, calls) ==
    IF chunks = <<>>
    THEN [ok |-> TRUE, bytes |-> out, err |-> NoError, writes |-> calls]
    ELSE write_all_unchecked(Tail(chunks), cap,
            IF cap = NoLimit THEN out \o Head(chunks)
            ELSE out \o Take(Head(chunks), Min(Len(Head(chunks)), cap - Len(out))),
            Append(calls, Head(chunks)))

\* writer.write_all(chunk)? for each chunk in turn: the writer takes the
\* bytes it has room for and fails the write that exceeds it
RECURSIVE write_all_each(_, _, _, _)
write_all_each(chunks, cap, out, calls) ==
    IF chunks = <<>>
    THEN [ok |-> TRUE, bytes |-> out, err |-> NoError, writes |-> calls]
    ELSE IF cap = NoLimit \/ Len(out) + Len(Head(chunks)) <= cap
    THEN write_all_each(Tail(chunks), cap, out \o Head(chunks), Append(calls, Head(chunks)))
    ELSE [ok |-> FALSE, bytes |-> out \o Take(Head(chunks), cap - Len(out)),
          err |-> TransportFailure, writes |-> Append(calls, Head(chunks))]

\* value.serialize(&mut writer): the outcome, the bytes the writer holds
\* and the write_all calls made
serialize_into(t, v, cap) ==
    LET run == write_all_each(serialize(t, v).writes, cap, <<>>, <<>>)
    IN  IF run.ok THEN [run EXCEPT !.ok = serialize(t, v).ok, !.err = serialize(t, v).err]
        ELSE run

(***************************************************************************)
(* BorshDeserialize::deserialize_reader.  A result is Ok(value, rest of    *)
(* the source) or Err(error, rest of the source).                          *)
(***************************************************************************)
\* the allocation ceiling of vec_from_reader, 1024 * 1024
MaxAlloc == 1048576

\* a bulk read that settles for whatever the source still holds
vec_from_reader_lenient(len, vec_len, pos, src, got) ==
    Ok(got \o SelectSeq(src, LAMBDA b : b >= 0), <<>>)

\* <u8>::vec_from_reader: `while pos < len`, one read per pass
RECURSIVE vec_from_reader_loop(_, _, _, _, _)
vec_from_reader_loop(len, vec_len, pos, src, got) ==
    IF ~(pos < len) THEN Ok(got, src)
    ELSE LET grown == IF pos = vec_len THEN Min(vec_len * 2, len) ELSE vec_len
             chunk == read(src, grown - pos)
         IN  IF ~chunk.ok
             THEN chunk
             ELSE IF Len(chunk.val) = 0
             THEN Err(IoError("InvalidData", ERROR_UNEXPECTED_LENGTH_OF_INPUT), chunk.rest)
             ELSE vec_from_reader_loop(len, grown, pos + Len(chunk.val), chunk.rest,
                                       got \o chunk.val)

vec_from_reader(len, src) == vec_from_reader_loop(len, Min(len, MaxAlloc), 0, src, <<>>)

\* core::str::from_utf8 succeeds
RECURSIVE is_utf8(_)
is_utf8(b) ==
    LET Cont(i) == i <= Len(b) /\ b[i] # IoErrMark /\ 128 <= b[i] /\ b[i] <= 191
    IN  IF b = <<>> THEN TRUE
        ELSE IF b[1] < 128 THEN is_utf8(Drop(b, 1))
        ELSE IF 194 <= b[1] /\ b[1] <= 223 THEN Cont(2) /\ is_utf8(Drop(b, 2))
        ELSE IF 224 <= b[1] /\ b[1] <= 239
        THEN /\ Cont(2) /\ Cont(3)
             /\ (b[1] = 224 => b[2] >= 160)
             /\ (b[1] = 237 => b[2] <= 159)
             /\ is_utf8(Drop(b, 3))
        ELSE IF 240 <= b[1] /\ b[1] <= 244
        THEN /\ Cont(2) /\ Cont(3) /\ Cont(4)
             /\ (b[1] = 240 => b[2] >= 144)
             /\ (b[1] = 244 => b[2] <= 143)
             /\ is_utf8(Drop(b, 4))
        ELSE FALSE

\* a scan that lets equal neighbours pass: a.cmp(b).is_le()
windows_nondescending(keys) == \A i \in 1..Len(keys) - 1 : ~KeyLt(keys[i + 1], keys[i])

\* for pair in vec.windows(2): a.cmp(b).is_lt() for every pair
windows_ascending(keys) == \A i \in 1..Len(keys) - 1 : KeyLt(keys[i], keys[i + 1])

\* a table that keeps the first value inserted for a key
RECURSIVE collect_map_first(_)
collect_map_first(entries) ==
    IF entries = <<>> THEN <<>>
    ELSE LET e == entries[Len(entries)]
             init == collect_map_first(Take(entries, Len(entries) - 1))
         IN  IF \E i \in 1..Len(init) : init[i][1] = e[1] THEN init ELSE Append(init, e)

\* HashMap::insert / Extend: a later entry replaces the value of an equal
\* key.  A fresh table's iteration order is unspecified; the model lists the
\* keys in the order of their first insertion.
RECURSIVE collect_map(_)
collect_map(entries) ==
    IF entries = <<>> THEN <<>>
    ELSE LET e == entries[Len(entries)]
             init == collect_map(Take(entries, Len(entries) - 1))
             at == {i \in 1..Len(init) : init[i][1] = e[1]}
         IN  IF at = {} THEN Append(init, e)
             ELSE [i \in 1..Len(init) |-> IF i \in at THEN e ELSE init[i]]

\* HashSet::insert / Extend: an equal element is kept once
RECURSIVE collect_set(_)
collect_set(keys) ==
    IF keys = <<>> THEN <<>>
    ELSE LET e == keys[Len(keys)]
             init == collect_set(Take(keys, Len(keys) - 1))
         IN  IF e \in Range(init) THEN init ELSE Append(init, e)

\* .map_err(unexpected_eof_to_unexpected_length_of_input)
map_err_unexpected_eof(r) ==
    IF r.ok THEN r ELSE [r EXCEPT !.err = unexpected_eof_to_unexpected_length_of_input(r.err)]

\* reader.read_exact(&mut buf).map_err(unexpected_eof_to_unexpected_length_of_input)
read_bytes(src, n) == map_err_unexpected_eof(read_exact(src, n))

strict_order_check(r, keys, strict_order) ==
    IF strict_order /\ ~windows_ascending(keys)
    THEN Err(IoError("InvalidData", ERROR_WRONG_ORDER_OF_KEYS), r.rest)
    ELSE r

DeZst(t, src) ==
    IF IsZst(t) THEN Err(check_zst(t).err, src) ELSE Ok(<<>>, src)

RECURSIVE deserialize_reader(_, _, _, _)
\* result.push(T::deserialize_reader(reader)?) n times
RECURSIVE deserialize_n(_, _, _, _, _, _)
deserialize_n(t, n, src, got, strict_order, width) ==
    IF n = 0 THEN Ok(got, src)
    ELSE LET r == deserialize_reader(t, src, strict_order, width)
         IN  IF r.ok
             THEN deserialize_n(t, n - 1, r.rest, Append(got, r.val), strict_order, width)
             ELSE r

\* impl_for_integer: <$type>::from_le_bytes(buf) of the bytes read, if any
int_from_le_bytes(raw, signed) ==
    IF ~raw.ok THEN raw
    ELSE IF signed THEN Ok(from_le_bytes_signed(raw.val), raw.rest)
    ELSE Ok(from_le_bytes_unsigned(raw.val), raw.rest)

\* <Vec<T> as BorshDeserialize>::deserialize_reader
Vec_deserialize_reader(t, src, strict_order, width) ==
    LET z == DeZst(t, src)
        \* let len = u32::deserialize_reader(reader)?
        l == int_from_le_bytes(read_bytes(src, 4), FALSE)
    IN  IF ~z.ok THEN z
        ELSE IF ~l.ok THEN l
        ELSE IF l.val = 0 THEN Ok(<<>>, l.rest)
        ELSE IF t = "u8" THEN vec_from_reader(l.val, l.rest)
        ELSE deserialize_n(t, l.val, l.rest, <<>>, strict_order, width)

\* <Vec<T> as BorshDeserialize>::deserialize_reader for a T whose
\* vec_from_reader is the trait's default, Ok(None): the element loop
Vec_deserialize_reader_naive(t, src, strict_order, width) ==
    LET z == DeZst(t, src)
        l == deserialize_reader("u32", src, strict_order, width)
    IN  IF ~z.ok THEN z
        ELSE IF ~l.ok THEN l
        ELSE IF l.val = 0 THEN Ok(<<>>, l.rest)
        ELSE deserialize_n(t, l.val, l.rest, <<>>, strict_order, width)

\* hashes_serde.rs HashMap: len, then key, value, insert, len times
RECURSIVE hashes_serde_insert_n(_, _, _, _, _, _, _)
hashes_serde_insert_n(kt, vt, n, src, got, strict_order, width) ==
    IF n = 0 THEN Ok(collect_map(got), src)
    ELSE LET key == deserialize_reader(kt, src, strict_order, width)
             value == deserialize_reader(vt, key.rest, strict_order, width)
         IN  IF ~key.ok THEN key
             ELSE IF ~value.ok THEN value
             ELSE hashes_serde_insert_n(kt, vt, n - 1, value.rest,
                                        Append(got, <<key.val, value.val>>), strict_order, width)

\* an Option decode that takes every flag other than 1 for None
Option_deserialize_reader_default(t, src, strict_order, width) ==
    LET flag == deserialize_reader("u8", src, strict_order, width)
        x == deserialize_reader(t, flag.rest, strict_order, width)
    IN  IF ~flag.ok THEN flag
        ELSE IF flag.val = 1 THEN (IF x.ok THEN Ok(<<x.val>>, x.rest) ELSE x)
        ELSE Ok(<<>>, flag.rest)

\* a NonZero decode that builds the value without looking at it
NonZero_deserialize_reader_unchecked(x) == x

\* impl_for_nonzero_integer: <$type>::new(decoded).ok_or_else(..), x being
\* the outcome of <$underlying>::deserialize_reader(reader)
NonZero_deserialize_reader(x) ==
    IF ~x.ok THEN x
    ELSE IF x.val = 0 THEN Err(IoError("InvalidData", ERROR_INVALID_ZERO_VALUE), x.rest)
    ELSE x

\* a bool decode in the manner of C: every non-zero byte is true
bool_deserialize_reader_nonzero(b) ==
    IF ~b.ok THEN b ELSE Ok(b.val # 0, b.rest)

\* <bool as BorshDeserialize>::deserialize_reader, b being the outcome of
\* <u8 as BorshDeserialize>::deserialize_reader(reader)
bool_deserialize_reader(b) ==
    IF ~b.ok THEN b
    ELSE IF b.val = 0 THEN Ok(FALSE, b.rest)
    ELSE IF b.val = 1 THEN Ok(TRUE, b.rest)
    ELSE Err(IoErrorByte("InvalidData", "Invalid bool representation", b.val), b.rest)

\* <Option<T> as BorshDeserialize>::deserialize_reader
Option_deserialize_reader(t, src, strict_order, width) ==
    LET flag == deserialize_reader("u8", src, strict_order, width)
        x == deserialize_reader(t, flag.rest, strict_order, width)
    IN  IF ~flag.ok THEN flag
        ELSE IF flag.val = 0 THEN Ok(<<>>, flag.rest)
        ELSE IF flag.val = 1 THEN (IF x.ok THEN Ok(<<x.val>>, x.rest) ELSE x)
        ELSE Err(IoErrorByte("InvalidData", "Invalid Option representation", flag.val),
                 flag.rest)

\* a Result decode with the branches the other way round
Result_deserialize_reader_swapped(t, et, src, strict_order, width) ==
    LET flag == deserialize_reader("u8", src, strict_order, width)
        e == deserialize_reader(et, flag.rest, strict_order, width)
        x == deserialize_reader(t, flag.rest, strict_order, width)
    IN  IF ~flag.ok THEN flag
        ELSE IF flag.val = 1
        THEN (IF e.ok THEN Ok([ok |-> FALSE, v |-> e.val], e.rest) ELSE e)
        ELSE IF flag.val = 0
        THEN (IF x.ok THEN Ok([ok |-> TRUE, v |-> x.val], x.rest) ELSE x)
        ELSE Err(IoErrorByte("InvalidData", "Invalid Result representation", flag.val),
                 flag.rest)

\* <Result<T, E> as BorshDeserialize>::deserialize_reader
Result_deserialize_reader(t, et, src, strict_order, width) ==
    LET flag == deserialize_reader("u8", src, strict_order, width)
        e == deserialize_reader(et, flag.rest, strict_order, width)
        x == deserialize_reader(t, flag.rest, strict_order, width)
    IN  IF ~flag.ok THEN flag
        ELSE IF flag.val = 0
        THEN (IF e.ok THEN Ok([ok |-> FALSE, v |-> e.val], e.rest) ELSE e)
        ELSE IF flag.val = 1
        THEN (IF x.ok THEN Ok([ok |-> TRUE, v |-> x.val], x.rest) ELSE x)
        ELSE Err(IoErrorByte("InvalidData", "Invalid Result representation", flag.val),
                 flag.rest)

SocketAddrV4_deserialize_reader(src, strict_order, width) ==
    LET ip == deserialize_reader("Ipv4Addr", src, strict_order, width)
        port == deserialize_reader("u16", ip.rest, strict_order, width)
    IN  IF ~ip.ok THEN ip ELSE IF ~port.ok THEN port
        ELSE Ok([ip |-> ip.val, port |-> port.val], port.rest)

SocketAddrV6_deserialize_reader(src, strict_order, width) ==
    LET ip == deserialize_reader("Ipv6Addr", src, strict_order, width)
        port == deserialize_reader("u16", ip.rest, strict_order, width)
    IN  IF ~ip.ok THEN ip ELSE IF ~port.ok THEN port
        ELSE Ok([ip |-> ip.val, port |-> port.val, flowinfo |-> 0, scope_id |-> 0], port.rest)

float_deserialize_reader(src, w) ==
    LET buf == read_bytes(src, w)
        result == float_from_le_bytes(buf.val, w)
    IN  IF ~buf.ok THEN buf
        ELSE IF is_nan(result, w)
        THEN Err(IoError("InvalidData",
                         "For portability reasons we do not allow to deserialize NaNs."),
                 buf.rest)
        ELSE Ok(result, buf.rest)

deserialize_reader(t, src, strict_order, width) ==
    LET d == TypeTable[t]
        k == d.kind
        De(u, from) == deserialize_reader(u, from, strict_order, width)
        raw == read_bytes(src, d.w)
        tag == De("u8", src)
        vec == Vec_deserialize_reader(d.a, src, strict_order, width)
        pairs == Vec_deserialize_reader(EntryType(d.a, d.b), src, strict_order, width)
    IN  CASE k = "uint" -> IF raw.ok THEN Ok(from_le_bytes_unsigned(raw.val), raw.rest) ELSE raw
          [] k = "sint" -> IF raw.ok THEN Ok(from_le_bytes_signed(raw.val), raw.rest) ELSE raw
          [] k = "u64"  -> IF raw.ok THEN Ok(u64_from_le_bytes(raw.val), raw.rest) ELSE raw
          [] k = "float" -> float_deserialize_reader(src, d.w)
          [] k = "usize" ->
                LET i == De("u64", src)
                IN  IF ~i.ok THEN i
                    ELSE IF usize_try_from(i.val, width) THEN i
                    ELSE Err(IoError("InvalidData", ERROR_OVERFLOW_ON_MACHINE_WITH_32_BIT_USIZE), i.rest)
          [] k = "isize" ->
                IF ~raw.ok THEN raw
                ELSE IF isize_try_from(i64_from_le_bytes(raw.val), width)
                THEN Ok(i64_from_le_bytes(raw.val), raw.rest)
                ELSE Err(IoError("InvalidData", ERROR_OVERFLOW_ON_MACHINE_WITH_32_BIT_ISIZE), raw.rest)
          [] k = "bool" -> bool_deserialize_reader(int_from_le_bytes(raw, FALSE))
          [] k = "nonzero" ->
                NonZero_deserialize_reader(int_from_le_bytes(raw, TypeTable[d.a].kind = "sint"))
          [] k = "unit" -> Ok(<<>>, src)
          [] k = "option" -> Option_deserialize_reader(d.a, src, strict_order, width)
          [] k = "result" -> Result_deserialize_reader(d.a, d.b, src, strict_order, width)
          \* Box<[T]>, VecDeque<T>, LinkedList<T>:
          \* <Vec<T>>::deserialize_reader(reader)?, then into() / collect()
          [] k \in {"vec", "boxed_slice", "vecdeque", "linkedlist"} -> vec
          [] k = "string" ->
                LET bytes == Vec_deserialize_reader("u8", src, strict_order, width)
                IN  IF ~bytes.ok THEN bytes
                    ELSE IF is_utf8(bytes.val) THEN bytes
                    ELSE Err(IoError("InvalidData", "invalid utf-8 sequence"), bytes.rest)
          [] k = "array" ->
                IF d.a = "u8" THEN raw
                ELSE deserialize_n(d.a, d.w, src, <<>>, strict_order, width)
          [] k = "tuple" ->
                LET x == De(d.a, src)
                    y == De(d.b, x.rest)
                IN  IF ~x.ok THEN x ELSE IF ~y.ok THEN y ELSE Ok(<<x.val, y.val>>, y.rest)
          [] k = "hashset" ->
                IF ~vec.ok THEN vec
                ELSE strict_order_check(Ok(collect_set(vec.val), vec.rest), vec.val, strict_order)
          [] k = "hashmap" ->
                IF IsZst(d.a) THEN DeZst(d.a, src)
                ELSE IF ~pairs.ok THEN pairs
                ELSE strict_order_check(Ok(collect_map(pairs.val), pairs.rest),
                                        Keys(pairs.val), strict_order)
          [] k = "btreeset" ->
                IF ~vec.ok THEN vec
                ELSE strict_order_check(Ok(sort(collect_set(vec.val)), vec.rest),
                                        vec.val, strict_order)
          [] k = "btreemap" ->
                IF IsZst(d.a) THEN DeZst(d.a, src)
                ELSE IF ~pairs.ok THEN pairs
                ELSE strict_order_check(Ok(sort_by_key(collect_map(pairs.val)), pairs.rest),
                                        Keys(pairs.val), strict_order)
          [] k = "hs_hashset" -> IF vec.ok THEN Ok(collect_set(vec.val), vec.rest) ELSE vec
          [] k = "hs_hashmap" ->
                LET len == De("u32", src)
                IN  IF len.ok
                    THEN hashes_serde_insert_n(d.a, d.b, len.val, len.rest, <<>>,
                                               strict_order, width)
                    ELSE len
          [] k \in {"ipv4", "ipv6"} -> raw
          [] k = "ipaddr" ->
                IF ~tag.ok THEN tag
                ELSE IF tag.val = 0
                THEN LET a == De("Ipv4Addr", tag.rest)
                     IN  IF a.ok THEN Ok([v6 |-> FALSE, ip |-> a.val], a.rest) ELSE a
                ELSE IF tag.val = 1
                THEN LET a == De("Ipv6Addr", tag.rest)
                     IN  IF a.ok THEN Ok([v6 |-> TRUE, ip |-> a.val], a.rest) ELSE a
                ELSE Err(IoErrorByte("InvalidData", "Invalid IpAddr variant", tag.val), tag.rest)
          [] k = "sockv4" -> SocketAddrV4_deserialize_reader(src, strict_order, width)
          [] k = "sockv6" -> SocketAddrV6_deserialize_reader(src, strict_order, width)
          [] k = "sockaddr" ->
                IF ~tag.ok THEN tag
                ELSE IF tag.val = 0
                THEN LET a == De("SocketAddrV4", tag.rest)
                     IN  IF a.ok THEN Ok([v6 |-> FALSE, addr |-> a.val], a.rest) ELSE a
                ELSE IF tag.val = 1
                THEN LET a == De("SocketAddrV6", tag.rest)
                     IN  IF a.ok THEN Ok([v6 |-> TRUE, addr |-> a.val], a.rest) ELSE a
                ELSE Err(IoErrorByte("InvalidData", "Invalid SocketAddr variant", tag.val), tag.rest)

(***************************************************************************)
(* The root entry points.                                                  *)
(***************************************************************************)
\* a deserialize that leaves buf at the end of the slice
deserialize_to_end(t, buf, strict_order, width) ==
    [deserialize_reader(t, buf, strict_order, width) EXCEPT !.rest = <<>>]

\* BorshDeserialize::deserialize(buf: &mut &[u8]): buf is left at the rest
deserialize(t, buf, strict_order, width) == deserialize_reader(t, buf, strict_order, width)

not_all_bytes_read(rest) == Err(IoError("InvalidData", ERROR_NOT_ALL_BYTES_READ), rest)

\* a root decode that does not look at what is left of the slice
expect_empty_lenient(object) == object

\* if !v_mut.is_empty() { return Err(InvalidData, ERROR_NOT_ALL_BYTES_READ) }
expect_empty(object) ==
    IF ~object.ok THEN object
    ELSE IF object.rest # <<>> THEN not_all_bytes_read(object.rest)
    ELSE object

from_slice(t, v, strict_order, width) == expect_empty(deserialize(t, v, strict_order, width))

try_from_slice(t, v, strict_order, width) == expect_empty(deserialize(t, v, strict_order, width))

\* a root decode that does not look at the outcome of the one-byte read
match_probe_lenient(result, probe) == Ok(result.val, probe.rest)

\* match reader.read_exact(&mut [0u8; 1]) {
\*     Err(f) if f.kind() == ErrorKind::UnexpectedEof => Ok(result),
\*     _ => Err(InvalidData, ERROR_NOT_ALL_BYTES_READ) }
match_probe(result, probe) ==
    IF ~probe.ok /\ probe.err.kind = "UnexpectedEof" THEN Ok(result.val, probe.rest)
    ELSE not_all_bytes_read(probe.rest)

expect_eof(result) ==
    IF ~result.ok THEN result ELSE match_probe(result, read_exact(result.rest, 1))

from_reader(t, reader, strict_order, width) ==
    expect_eof(deserialize_reader(t, reader, strict_order, width))

try_from_reader(t, reader, strict_order, width) ==
    expect_eof(deserialize_reader(t, reader, strict_order, width))

(***************************************************************************)
(* Sizes of the bulk reader.  A declared length is any u32, so sizes are   *)
(* kept as <<q, r>> = q * 2^20 + r with 0 <= r < 2^20.                     *)
(***************************************************************************)
Big(q, r) == <<q, r>>
BigZero == Big(0, 0)
BigLt(a, b) == a[1] < b[1] \/ (a[1] = b[1] /\ a[2] < b[2])
BigLe(a, b) == a = b \/ BigLt(a, b)
BigMin(a, b) == IF BigLt(b, a) THEN b ELSE a
BigMax(a, b) == IF BigLt(a, b) THEN b ELSE a
BigAdd(a, b) == Big(a[1] + b[1] + (a[2] + b[2]) \div MaxAlloc, (a[2] + b[2]) % MaxAlloc)
\* a - b for b <= a
BigSub(a, b) == Big(a[1] - b[1] + (a[2] - b[2]) \div MaxAlloc, (a[2] - b[2]) % MaxAlloc)

\* u32::MAX and usize::MAX of a 32-bit target
U32Max == Big(4095, MaxAlloc - 1)
\* usize::saturating_mul(2)
saturating_mul2(a, width) ==
    IF width = 32 THEN BigMin(BigAdd(a, a), U32Max) ELSE BigAdd(a, a)

\* declared lengths and amounts of data the source holds
DeclaredLens == {BigZero, Big(0, 1), Big(0, 10), Big(0, MaxAlloc - 1), Big(1, 0), Big(1, 1),
                 Big(2, 0), Big(3, 5), U32Max}
SourceSizes == {BigZero, Big(0, 10), Big(1, 0), Big(3, 5), Big(6, 0), U32Max}
\* sizes of reads that return less than asked for
ShortSizes == {Big(0, 1), Big(0, 524288), Big(1, 0)}

\* r_got when the read returned Err
ReadFailed == Big(-1, 0)

\* the counts Read::read may return for a buffer of `space` bytes
ReadSizes(space, avail, small) ==
    IF space = BigZero \/ avail = BigZero THEN {BigZero}
    ELSE {BigMin(space, avail)}
         \cup (IF small < MaxShortReads
               THEN {n \in ShortSizes : BigLt(n, BigMin(space, avail))}
               ELSE {})

(***************************************************************************)
(* deserialize_reader as a computation that runs read by read, the form    *)
(* in which an async call is suspended and resumed.  A machine holds what  *)
(* the call's future holds between polls: the frames still to run (the     *)
(* callers' continuations), the values decoded and not yet consumed, and   *)
(* the reader; `trace` records the reads issued.  Every body is shared by  *)
(* the two modes (async_generic expands one source text twice), but for    *)
(* [T; N], whose async impl is written out by hand.                        *)
(***************************************************************************)
Frame(op, t, len, n, acc) == [op |-> op, t |-> t, len |-> len, n |-> n, acc |-> acc]
\* T::deserialize_reader(reader), still to be called
De(t) == Frame("de", t, 0, 0, <<>>)

Machine(t, src) ==
    [stack |-> <<De(t)>>, src |-> src, vals |-> <<>>, trace |-> <<>>,
     done |-> FALSE, res |-> Err(NoError, <<>>)]

\* `?` on an Err: every caller returns it
Fail(m, e, rest) ==
    [m EXCEPT !.stack = <<>>, !.src = rest, !.done = TRUE, !.res = Err(e, rest)]
\* the frame on top returns Ok(v) to its caller
Return(m, v) == [m EXCEPT !.stack = Tail(@), !.vals = <<v>> \o @]
\* the frame on top goes on as `frames`
Call(m, frames) == [m EXCEPT !.stack = frames \o Tail(@)]
Pop(m, n) == [m EXCEPT !.vals = Drop(@, n)]

\* reader.read_exact(&mut buf).map_err(unexpected_eof_to_unexpected_length_of_input)?
read_step(m, n) ==
    LET r == read_bytes(m.src, n)
        traced == [m EXCEPT !.trace = Append(@, <<"read_exact", n>>)]
    IN  IF r.ok THEN [Return(traced, r.val) EXCEPT !.src = r.rest]
        ELSE Fail(traced, r.err, r.rest)

\* a byte payload read by one read_exact into a buffer of the declared length
vec_from_reader_exact(m) == read_step(m, Head(m.stack).len)

\* one pass of the loop of <u8>::vec_from_reader
vec_from_reader_step(m) ==
    LET f == Head(m.stack)
        pos == Len(f.acc)
        grown == IF pos = f.n THEN Min(f.n * 2, f.len) ELSE f.n
        chunk == read(m.src, grown - pos)
        traced == [m EXCEPT !.trace = Append(@, <<"read", grown - pos>>)]
    IN  IF ~(pos < f.len) THEN Return(m, f.acc)
        ELSE IF ~chunk.ok THEN Fail(traced, chunk.err, chunk.rest)
        ELSE IF Len(chunk.val) = 0
        THEN Fail(traced, IoError("InvalidData", ERROR_UNEXPECTED_LENGTH_OF_INPUT), chunk.rest)
        ELSE [Call(traced, <<Frame("vfr", f.t, f.len, grown, f.acc \o chunk.val)>>)
                 EXCEPT !.src = chunk.rest]

\* an array decode that never asks T::array_from_reader
array_elementwise(m) ==
    Call(m, <<Frame("fill_async", Head(m.stack).t, 0, TypeTable[Head(m.stack).t].w, <<>>)>>)

\* <[T; N] as BorshDeserialize>::deserialize_reader up to fill_buffer
array_deserialize_reader(m) ==
    LET f == Head(m.stack)
        d == TypeTable[f.t]
    IN  IF d.a = "u8" THEN read_step(m, d.w)
        ELSE Call(m, <<Frame("fill", f.t, 0, d.w, <<>>)>>)

\* ArrayDropGuard::fill_buffer(|| T::deserialize_reader(reader)), one
\* element per pass; transmute_to_array when the loop is over
fill_buffer(m) ==
    LET f == Head(m.stack)
    IN  IF Len(f.acc) = f.n THEN Return(m, f.acc)
        ELSE Call(m, <<De(TypeTable[f.t].a), Frame("write", f.t, 0, f.n, f.acc)>>)

\* <[T; N] as BorshDeserializeAsync>::deserialize_reader up to fill_buffer
array_deserialize_reader_async(m) ==
    LET f == Head(m.stack)
        d == TypeTable[f.t]
    IN  IF d.a = "u8" THEN read_step(m, d.w)
        ELSE Call(m, <<Frame("fill_async", f.t, 0, d.w, <<>>)>>)

\* the async ArrayDropGuard::fill_buffer(), which holds the reader itself
fill_buffer_async(m) ==
    LET f == Head(m.stack)
    IN  IF Len(f.acc) = f.n THEN Return(m, f.acc)
        ELSE Call(m, <<De(TypeTable[f.t].a), Frame("write_async", f.t, 0, f.n, f.acc)>>)

\* the next step of a decode; mode is "sync" or "async"
step(m, mode) ==
    IF m.stack = <<>> THEN [m EXCEPT !.done = TRUE, !.res = Ok(Head(m.vals), m.src)]
    ELSE
    LET f == Head(m.stack)
        d == TypeTable[f.t]
        k == IF f.op = "de" THEN d.kind ELSE f.op
        top == Head(m.vals)
        m1 == Pop(m, 1)
        Then(op) == Frame(op, f.t, 0, 0, <<>>)
    IN  CASE k = "uint" ->
                LET r == read_step(m, d.w)
                IN  IF r.done THEN r
                    ELSE [r EXCEPT !.vals = <<from_le_bytes_unsigned(Head(@))>> \o Tail(@)]
          [] k = "bool" -> Call(m, <<De("u8"), Then("bool_tag")>>)
          [] k = "bool_tag" ->
                IF top = 0 THEN Return(m1, FALSE)
                ELSE IF top = 1 THEN Return(m1, TRUE)
                ELSE Fail(m, IoErrorByte("InvalidData", "Invalid bool representation", top),
                          m.src)
          [] k = "option" -> Call(m, <<De("u8"), Then("option_tag")>>)
          [] k = "option_tag" ->
                IF top = 0 THEN Return(m1, <<>>)
                ELSE IF top = 1 THEN Call(m1, <<De(d.a), Then("some")>>)
                ELSE Fail(m, IoErrorByte("InvalidData", "Invalid Option representation", top),
                          m.src)
          [] k = "some" -> Return(m1, <<top>>)
          [] k = "tuple" -> Call(m, <<De(d.a), De(d.b), Then("pair")>>)
          [] k = "pair" -> Return(Pop(m, 2), <<m.vals[2], m.vals[1]>>)
          [] k = "vec" -> Call(m, <<De("u32"), Then("vec_len")>>)
          [] k = "vec_len" ->
                IF top = 0 THEN Return(m1, <<>>)
                ELSE IF d.a = "u8"
                THEN Call(m1, <<Frame("vfr", f.t, top, Min(top, MaxAlloc), <<>>)>>)
                ELSE Call(m1, <<Frame("elems", f.t, top, 0, <<>>)>>)
          [] k = "vfr" -> vec_from_reader_step(m)
          [] k = "string" -> Call(m, <<De("Vec<u8>"), Then("from_utf8")>>)
          [] k = "from_utf8" ->
                IF is_utf8(top) THEN Return(m1, top)
                ELSE Fail(m, IoError("InvalidData", "invalid utf-8 sequence"), m.src)
          [] k = "elems" ->
                IF f.len = 0 THEN Return(m, f.acc)
                ELSE Call(m, <<De(d.a), Frame("push", f.t, f.len, 0, f.acc)>>)
          [] k = "push" -> Call(m1, <<Frame("elems", f.t, f.len - 1, 0, Append(f.acc, top))>>)
          [] k = "array" ->
                IF mode = "sync" THEN array_deserialize_reader(m)
                ELSE array_deserialize_reader_async(m)
          [] k = "fill" -> fill_buffer(m)
          [] k = "write" -> Call(m1, <<Frame("fill", f.t, 0, f.n, Append(f.acc, top))>>)
          [] k = "fill_async" -> fill_buffer_async(m)
          [] k = "write_async" ->
                Call(m1, <<Frame("fill_async", f.t, 0, f.n, Append(f.acc, top))>>)

\* the step to come is a read, the point at which an async call may suspend
AwaitsRead(m) ==
    /\ m.stack # <<>>
    /\ LET f == Head(m.stack)
           d == TypeTable[f.t]
       IN  \/ f.op = "de" /\ d.kind = "uint"
           \/ f.op = "de" /\ d.kind = "array" /\ d.a = "u8"
           \/ f.op = "vfr" /\ Len(f.acc) < f.len

(***************************************************************************)
(* Byte strings handed to the decoders that no encoder produced.           *)
(***************************************************************************)
SliceTails == {<<>>, <<9>>, <<0, 0>>}
ReaderTails == SliceTails \cup {<<IoErrMark>>}

\* the encoding followed by a tail, or cut one byte short
Inputs(bytes, tails, ends) ==
    {bytes \o t : t \in tails}
    \cup (IF bytes = <<>> THEN {} ELSE {Take(bytes, Len(bytes) - 1) \o e : e \in ends})

HostileLens == {1, 2, 3, 1000, 2147483647}
HostilePayloads == {<<>>, <<7>>, <<7, 0>>, <<7, 0, 7, 0>>}
PlainWires == {<<>>, <<2>>, <<5, 9>>}
\* bit patterns of foreign origin: 1.0, -infinity, a quiet NaN, a signalling
\* NaN whose only fraction bit is the lowest, a negative NaN
FloatWires(w) ==
    IF w = 4
    THEN {<<0, 0, 128, 63>>, <<0, 0, 128, 255>>, <<0, 0, 192, 127>>, <<1, 0, 128, 127>>,
          <<255, 255, 255, 255>>, <<0, 0, 128, 63, 7>>}
    ELSE {<<0, 0, 0, 0, 0, 0, 240, 63>>, <<0, 0, 0, 0, 0, 0, 240, 255>>,
          <<0, 0, 0, 0, 0, 0, 248, 127>>, <<1, 0, 0, 0, 0, 0, 240, 127>>,
          <<0, 0, 0, 1, 0, 0, 240, 127>>, <<255, 255, 255, 255, 255, 255, 255, 255>>}
\* 64-bit patterns around the limits of a 32-bit usize / isize: 2^40, 2^32,
\* 2^32 - 1, 2^31, 2^31 - 1, 2^64 - 1 (-1), 2^63 (i64::MIN), -2^31, -2^31 - 1
SizeWires == {W64(0, 65536, 0), W64(0, 256, 0), W64(0, 255, M24), W64(0, 128, 0),
              W64(0, 127, M24), W64(65535, M24, M24), W64(32768, 0, 0),
              W64(65535, Limb - 128, 0), W64(65535, Limb - 129, M24)}

WireCandidates(t) ==
    LET k == Kind(t)
        E == ElemValues("u8")
        LenWires == {len_prefix(n) \o p : n \in HostileLens, p \in HostilePayloads}
    IN  PlainWires \cup
        CASE k \in MapKinds -> {serialize("Vec<(u8, u8)>", s).bytes : s \in SeqUpTo(E \X E, MaxLen)}
          [] k \in SetKinds -> {serialize("Vec<u8>", s).bytes : s \in SeqUpTo(E, MaxLen)}
          [] k \in {"vec", "string", "boxed_slice", "vecdeque", "linkedlist"} -> LenWires
          [] k \in {"usize", "isize"} -> {w64_to_le_bytes(v) : v \in SizeWires}
          [] k = "float" -> FloatWires(TypeTable[t].w)
          [] k = "bool" -> {<<b>> : b \in 0..255} \cup {<<7, 1>>}
          [] k = "nonzero" -> {[i \in 1..n |-> 0] : n \in 1..5}
                              \cup {<<0, 1, 0, 0>>, <<0, 0, 0, 128>>, <<255, 255, 255, 255>>}
          [] t = "(Vec<u8>, u8)" -> LenWires
          [] t = "Option<Vec<u8>>" -> {<<1>> \o w : w \in LenWires}
          [] OTHER -> {}

(***************************************************************************)
(* The state machine.  A run fixes the type and the build configuration,   *)
(* then either encodes a value (or two) and decodes what was written, or   *)
(* decodes a byte string of foreign origin, or drives the bulk reader read *)
(* by read.                                                                *)
(***************************************************************************)
Unset == "unset"

StrictKinds == {"hashmap", "hashset", "btreemap", "btreeset"}

InitWith(types) ==
    /\ pc = "idle"
    /\ ty \in types
    /\ strict \in (IF Kind(ty) \in StrictKinds THEN BOOLEAN ELSE {FALSE})
    /\ ptr_width \in (IF ty \in {"usize", "isize", "Vec<u8>"} THEN {32, 64} ELSE {64})
    /\ val = Unset /\ enc = Unset /\ other = Unset /\ enc2 = Unset
    /\ input = <<>> /\ via = "" /\ res = Unset /\ w_cap = NoLimit
    /\ r_len = BigZero /\ r_vec = BigZero /\ r_pos = BigZero /\ r_src = BigZero
    /\ r_req = BigZero /\ r_got = BigZero /\ r_small = 0 /\ r_err = NoError
    /\ a_n = 0 /\ a_src = <<>> /\ a_init = 0 /\ a_slots = <<>> /\ a_drops = <<>>
    /\ a_made = 0 /\ a_freed = 0 /\ a_runs = 0
    /\ k_sync = Machine("()", <<>>) /\ k_async = Machine("()", <<>>)
    /\ k_wait = FALSE /\ k_susp = 0 /\ k_writes = <<>> /\ k_out = <<>>
    /\ use_discriminant \in (IF Kind(ty) = "enum" THEN BOOLEAN ELSE {FALSE})
    /\ rc_heap = <<>> /\ rc_refs = <<>> /\ rc_out = <<>>
    /\ r_reads = 0
    /\ s_defs = {} /\ s_stack = <<>> /\ s_calls = 0 /\ s_runs = 0

Init == InitWith(Types)

\* to_vec(&v)
Serialize ==
    /\ pc = "idle"
    /\ pc' = "encoded"
    /\ \E v \in Values(ty, ptr_width) :
          /\ val' = v
          /\ enc' = serialize(ty, v)
          /\ input' = serialize(ty, v).bytes
    /\ UNCHANGED <<ty, strict, ptr_width, w_cap, other, enc2, via, res, reader_vars, derive_vars, array_vars, async_vars>>

\* to_vec(&a) and to_vec(&b)
SerializePair ==
    /\ pc = "idle"
    /\ pc' = "paired"
    /\ \E a, b \in Values(ty, ptr_width) :
          /\ val' = a
          /\ other' = b
          /\ enc' = serialize(ty, a)
          /\ enc2' = serialize(ty, b)
    /\ UNCHANGED <<ty, strict, ptr_width, w_cap, input, via, res, reader_vars, derive_vars, array_vars, async_vars>>

\* bytes of foreign origin arrive
Feed ==
    /\ pc = "idle"
    /\ pc' = "fed"
    /\ \E bytes \in WireCandidates(ty) : input' = bytes
    /\ UNCHANGED <<ty, strict, ptr_width, w_cap, val, enc, other, enc2, via, res, reader_vars, derive_vars, array_vars, async_vars>>

Decoded(name, src, result) ==
    /\ pc' = IF pc = "encoded" THEN "decoded" ELSE "fed_decoded"
    /\ input' = src
    /\ via' = name
    /\ res' = result
    /\ UNCHANGED <<ty, strict, ptr_width, w_cap, val, enc, other, enc2, reader_vars, derive_vars, array_vars, async_vars>>

SliceInputs == IF pc = "encoded" THEN Inputs(input, SliceTails, {<<>>}) ELSE {input}
ReaderInputs == IF pc = "encoded" THEN Inputs(input, ReaderTails, {<<>>, <<IoErrMark>>})
                ELSE {input, input \o <<IoErrMark>>}

FromSlice ==
    /\ pc \in {"encoded", "fed"}
    /\ \E src \in SliceInputs :
          Decoded("from_slice", src, from_slice(ty, src, strict, ptr_width))

TryFromSlice ==
    /\ pc \in {"encoded", "fed"}
    /\ \E src \in SliceInputs :
          Decoded("try_from_slice", src, try_from_slice(ty, src, strict, ptr_width))

Deserialize ==
    /\ pc \in {"encoded", "fed"}
    /\ \E src \in SliceInputs :
          Decoded("deserialize", src, deserialize(ty, src, strict, ptr_width))

FromReader ==
    /\ pc \in {"encoded", "fed"}
    /\ \E src \in ReaderInputs :
          Decoded("from_reader", src, from_reader(ty, src, strict, ptr_width))

TryFromReader ==
    /\ pc \in {"encoded", "fed"}
    /\ \E src \in ReaderInputs :
          Decoded("try_from_reader", src, try_from_reader(ty, src, strict, ptr_width))

DeserializeReader ==
    /\ pc \in {"encoded", "fed"}
    /\ \E src \in ReaderInputs :
          Decoded("deserialize_reader", src, deserialize_reader(ty, src, strict, ptr_width))

(***************************************************************************)
(* <u8>::vec_from_reader, one pass of `while pos < len` per step, over a   *)
(* source that may return fewer bytes than asked for.                      *)
(***************************************************************************)
\* let mut vec = vec![0u8; len.min(1024 * 1024)]; let mut pos = 0;
VfrBegin ==
    /\ pc = "idle"
    /\ ty = "Vec<u8>"
    /\ pc' = "vfr_loop"
    /\ \E len \in DeclaredLens, avail \in SourceSizes :
          /\ r_len' = len
          /\ r_vec' = BigMin(len, Big(1, 0))
          /\ r_src' = avail
    /\ r_pos' = BigZero
    /\ UNCHANGED <<codec_vars, array_vars, derive_vars, async_vars, r_req, r_got, r_small, r_err>>

\* a resize straight to the declared length
Resized_eager == r_len

\* no resize: the buffer keeps the length it was given at the start
Resized_never == r_vec

\* vec.len() once `if pos == vec.len() { vec.resize(..) }` has run
Resized == IF r_pos = r_vec THEN BigMin(saturating_mul2(r_vec, ptr_width), r_len) ELSE r_vec

\* reader.read(&mut vec[pos..]) returns Ok(n)
VfrRead(n) ==
    /\ pc = "vfr_loop"
    /\ BigLt(r_pos, r_len)
    /\ r_vec' = Resized
    /\ r_req' = BigSub(Resized, r_pos)
    /\ r_got' = n
    /\ r_reads' = r_reads + 1
    /\ r_small' = IF n # BigZero /\ BigLt(n, BigMin(BigSub(Resized, r_pos), r_src))
                  THEN r_small + 1 ELSE r_small
    /\ IF n = BigZero
       THEN /\ pc' = "vfr_err"
            /\ r_err' = IoError("InvalidData", ERROR_UNEXPECTED_LENGTH_OF_INPUT)
            /\ UNCHANGED <<r_pos, r_src>>
       ELSE /\ pc' = "vfr_loop"
            /\ r_pos' = BigAdd(r_pos, n)
            /\ r_src' = BigSub(r_src, n)
            /\ UNCHANGED r_err
    /\ UNCHANGED <<codec_vars, array_vars, rc_vars, schema_vars, async_vars, r_len>>

\* reader.read(&mut vec[pos..]) returns Err(e), passed on by `?`
VfrReadFail ==
    /\ pc = "vfr_loop"
    /\ BigLt(r_pos, r_len)
    /\ pc' = "vfr_err"
    /\ r_vec' = Resized
    /\ r_req' = BigSub(Resized, r_pos)
    /\ r_got' = ReadFailed
    /\ r_reads' = r_reads + 1
    /\ r_err' = TransportFailure
    /\ UNCHANGED <<codec_vars, array_vars, rc_vars, schema_vars, async_vars, r_len, r_pos, r_src, r_small>>

\* `pos < len` is false: Ok(Some(vec))
VfrReturn ==
    /\ pc = "vfr_loop"
    /\ ~BigLt(r_pos, r_len)
    /\ pc' = "vfr_ok"
    /\ UNCHANGED <<codec_vars, reader_vars, derive_vars, array_vars, async_vars>>

VfrStep ==
    /\ pc = "vfr_loop"
    /\ \E n \in ReadSizes(BigSub(Resized, r_pos), r_src, r_small) : VfrRead(n)

Next ==
    \/ Serialize
    \/ SerializePair
    \/ Feed
    \/ FromSlice
    \/ TryFromSlice
    \/ Deserialize
    \/ FromReader
    \/ TryFromReader
    \/ DeserializeReader
    \/ VfrBegin
    \/ VfrStep
    \/ VfrReadFail
    \/ VfrReturn

Spec == Init /\ [][Next]_vars

(***************************************************************************)
(* Collections of the zero-sized element / key type ().                    *)
(***************************************************************************)
\* a set holds () at most once, a map has at most one entry under the key ()
ZstValues(t) ==
    LET k == Kind(t)
    IN  IF k \in MapKinds THEN {<<>>} \cup {<< <<(<<>>), y>> >> : y \in ElemValues("u8")}
        ELSE IF k \in SetKinds THEN {<<>>, << <<>> >>}
        ELSE SeqUpTo({<<>>}, MaxLen)

\* to_vec(&v)
ZstSerialize ==
    /\ pc = "idle"
    /\ pc' = "encoded"
    /\ \E v \in ZstValues(ty) :
          /\ val' = v
          /\ enc' = serialize(ty, v)
          /\ input' = serialize(ty, v).bytes
    /\ UNCHANGED <<ty, strict, ptr_width, w_cap, other, enc2, via, res, reader_vars, derive_vars, array_vars, async_vars>>

InitZst == InitWith(ZstTypes)
NextZst ==
    \/ ZstSerialize
    \/ Feed
    \/ FromSlice
    \/ TryFromSlice
    \/ Deserialize
    \/ DeserializeReader
    \/ FromReader
    \/ TryFromReader
SpecZst == InitZst /\ [][NextZst]_vars

(***************************************************************************)
(* Enums with derived BorshSerialize / BorshDeserialize.                   *)
(*   enum A { A, B = 10 }                                                  *)
(*   enum MyEnum { Zero, One(u8), Many(Vec<u8>) }                          *)
(* A declaration is the list of its variants: name, explicit discriminant  *)
(* literal (NoLiteral when absent) and the type of its field ("" for a     *)
(* unit variant).                                                          *)
(***************************************************************************)
NoLiteral == -1
Variant(name, literal, field) == [name |-> name, literal |-> literal, field |-> field]

EnumDecl(t) ==
    IF t = "A" THEN <<Variant("A", NoLiteral, ""), Variant("B", 10, "")>>
    ELSE <<Variant("Zero", NoLiteral, ""), Variant("One", NoLiteral, "u8"),
           Variant("Many", NoLiteral, "Vec<u8>")>>

\* every variant gets the literal it carries, in whatever mode
discriminant_literal_first(decl, i, use) ==
    IF decl[i].literal # NoLiteral THEN decl[i].literal ELSE i - 1

\* the tag byte of the i-th variant: its position when use_discriminant is
\* false; otherwise its literal, or one more than the variant before it
\* (0 for the first) when it carries none
RECURSIVE discriminant(_, _, _)
discriminant(decl, i, use) ==
    IF ~use THEN i - 1
    ELSE IF decl[i].literal # NoLiteral THEN decl[i].literal
    ELSE IF i = 1 THEN 0
    ELSE discriminant(decl, i - 1, use) + 1

\* the values the field of the i-th variant may hold
FieldValues(t, i) ==
    IF EnumDecl(t)[i].field = "" THEN {<<>>} ELSE Values(EnumDecl(t)[i].field, 64)

\* derived serialize: the variant's tag byte, then its fields in order
enum_serialize(t, v, use) ==
    SerThen(SerOk(to_le_bytes(discriminant(EnumDecl(t), v.variant, use), 1)),
            IF EnumDecl(t)[v.variant].field = "" THEN SerOk(<<>>)
            ELSE serialize(EnumDecl(t)[v.variant].field, v.field))

\* the variant i built from the outcome x of its field's deserialize_reader
variant_with_field(i, x) ==
    IF x.ok THEN Ok([variant |-> i, field |-> x.val], x.rest) ELSE x

\* the arm of the variant i
variant_arm(field, i, src) ==
    IF field = "" THEN Ok([variant |-> i, field |-> <<>>], src)
    ELSE variant_with_field(i, deserialize_reader(field, src, FALSE, 64))

\* the variants whose discriminant is tag
variants_tagged(decl, tag, use) == {i \in 1..Len(decl) : discriminant(decl, i, use) = tag}

\* derived EnumExt::deserialize_variant(reader, tag), hits being the
\* variants the tag selects
deserialize_variant_of(t, src, tag, hits) ==
    IF hits = {}
    THEN Err(IoErrorByte("InvalidData", "Unexpected variant tag", tag), src)
    ELSE variant_arm(EnumDecl(t)[CHOOSE j \in hits : TRUE].field, CHOOSE j \in hits : TRUE, src)

deserialize_variant(t, src, tag, use) ==
    deserialize_variant_of(t, src, tag, variants_tagged(EnumDecl(t), tag, use))

\* derived deserialize_reader: read the tag, then deserialize_variant
enum_tagged(t, tag, use) ==
    IF tag.ok THEN deserialize_variant(t, tag.rest, tag.val, use) ELSE tag
enum_deserialize_reader(t, src, use) ==
    enum_tagged(t, int_from_le_bytes(read_bytes(src, 1), FALSE), use)

EnumTags == {0, 1, 2, 3, 10, 11}
EnumPayloads == {<<>>, <<5>>, <<0, 0, 0, 0>>, <<1, 0, 0, 0, 7>>}

\* the value and its bytes, kept by the caller
EnumEncoded(v, e) ==
    /\ val' = v
    /\ enc' = e
    /\ input' = e.bytes

\* to_vec(&v)
EnumSerialize ==
    /\ pc = "idle"
    /\ pc' = "encoded"
    /\ \E i \in 1..Len(EnumDecl(ty)) : \E x \in FieldValues(ty, i) :
          EnumEncoded([variant |-> i, field |-> x],
                      enum_serialize(ty, [variant |-> i, field |-> x], use_discriminant))
    /\ UNCHANGED <<ty, strict, ptr_width, w_cap, other, enc2, via, res, reader_vars,
                   array_vars, async_vars, derive_vars>>

\* bytes of foreign origin arrive
EnumFeed ==
    /\ pc = "idle"
    /\ pc' = "fed"
    /\ \E tag \in EnumTags, p \in EnumPayloads : input' = <<tag>> \o p
    /\ UNCHANGED <<ty, strict, ptr_width, w_cap, val, enc, other, enc2, via, res, reader_vars,
                   array_vars, async_vars, derive_vars>>

\* T::deserialize(&mut &bytes[..])
EnumDeserialize ==
    /\ pc \in {"encoded", "fed"}
    /\ \E src \in SliceInputs :
          Decoded("deserialize", src, enum_deserialize_reader(ty, src, use_discriminant))

InitEnum == InitWith(EnumTypes)
NextEnum ==
    \/ EnumSerialize
    \/ EnumFeed
    \/ EnumDeserialize
SpecEnum == InitEnum /\ [][NextEnum]_vars

(***************************************************************************)
(* Rc<T> (and Arc<T>, whose impls are the same text) inside a structure:   *)
(* a Vec<Rc<u16>> built from fresh and cloned references, serialized, and  *)
(* decoded again.  An address is an index into rc_heap.                    *)
(***************************************************************************)
RcBox(v, strong) == [val |-> v, strong |-> strong]

\* Rc::new(v) / Rc::clone(&rc), pushed onto the vector
RcNew ==
    /\ pc \in {"idle", "rc_build"}
    /\ Len(rc_refs) < MaxRefs
    /\ pc' = "rc_build"
    /\ \E v \in ElemValues("u16") : rc_heap' = Append(rc_heap, RcBox(v, 1))
    /\ rc_refs' = Append(rc_refs, Len(rc_heap) + 1)
    /\ UNCHANGED <<codec_vars, reader_vars, array_vars, async_vars, use_discriminant, rc_out, r_reads, schema_vars>>

RcClone ==
    /\ pc = "rc_build"
    /\ Len(rc_refs) < MaxRefs
    /\ \E a \in Range(rc_refs) :
          /\ rc_heap' = [rc_heap EXCEPT ![a].strong = @ + 1]
          /\ rc_refs' = Append(rc_refs, a)
    /\ UNCHANGED <<pc, codec_vars, reader_vars, array_vars, async_vars, use_discriminant, rc_out, r_reads, schema_vars>>

\* <Rc<T> as BorshSerialize>::serialize: (**self).serialize(writer), T = u16
Rc_serialize(heap, a) == SerOk(to_le_bytes(heap[a].val, 2))

RECURSIVE Rc_serialize_each(_, _)
Rc_serialize_each(heap, refs) ==
    IF refs = <<>> THEN SerOk(<<>>)
    ELSE SerThen(Rc_serialize(heap, Head(refs)), Rc_serialize_each(heap, Tail(refs)))

\* a conversion that hands out an allocation already holding an equal value
Rc_from_interned(heap, v) ==
    LET same == {a \in 1..Len(heap) : heap[a].val = v /\ heap[a].strong > 0}
        a == CHOOSE x \in same : TRUE
    IN  IF same = {} THEN [heap |-> Append(heap, RcBox(v, 1)), addr |-> Len(heap) + 1]
        ELSE [heap |-> [heap EXCEPT ![a].strong = @ + 1], addr |-> a]

\* Rc::from(Box<T>): a new allocation with a strong count of 1
Rc_from(heap, v) == [heap |-> Append(heap, RcBox(v, 1)), addr |-> Len(heap) + 1]

\* the Vec dropped by `?`: every Rc in it gives up its strong reference
RECURSIVE drop_refs(_, _)
drop_refs(heap, refs) ==
    IF refs = <<>> THEN heap
    ELSE drop_refs([heap EXCEPT ![Head(refs)].strong = @ - 1], Tail(refs))

\* <u16 / u32 as BorshDeserialize>::deserialize_reader
uint_deserialize_reader(src, w) == int_from_le_bytes(read_bytes(src, w), FALSE)

\* result.push(<Rc<T>>::deserialize_reader(reader)?) n times, each
\* <Box<T>>::deserialize_reader(reader)?.into()
RECURSIVE Rc_deserialize_n(_, _, _, _)
RECURSIVE Rc_pushed(_, _, _, _, _)
Rc_pushed(n, x, heap, out, rc) ==
    IF x.ok THEN Rc_deserialize_n(n - 1, x.rest, rc.heap, Append(out, rc.addr))
    ELSE [r |-> Err(x.err, x.rest), heap |-> drop_refs(heap, out)]
Rc_deserialize_n(n, src, heap, out) ==
    IF n = 0 THEN [r |-> Ok(out, src), heap |-> heap]
    ELSE Rc_pushed(n, uint_deserialize_reader(src, 2), heap, out,
                   Rc_from(heap, uint_deserialize_reader(src, 2).val))

\* <Vec<Rc<u16>> as BorshDeserialize>::deserialize_reader, l being the
\* outcome of <u32>::deserialize_reader(reader)
Vec_Rc_deserialize_reader(l, heap) ==
    IF ~l.ok THEN [r |-> l, heap |-> heap]
    ELSE Rc_deserialize_n(l.val, l.rest, heap, <<>>)

\* to_vec(&refs)
RcSerialize ==
    /\ pc = "rc_build"
    /\ pc' = "rc_encoded"
    /\ enc' = SerThen(SerOk(len_prefix(Len(rc_refs))), Rc_serialize_each(rc_heap, rc_refs))
    /\ UNCHANGED <<ty, strict, ptr_width, w_cap, val, other, enc2, input, via, res, reader_vars,
                   array_vars, async_vars, derive_vars>>

\* the outcome of the decode, taken over by the caller
RcDecoded(got) ==
    /\ res' = got.r
    /\ rc_heap' = got.heap
    /\ rc_out' = IF got.r.ok THEN got.r.val ELSE <<>>

\* <Vec<Rc<u16>>>::deserialize(&mut &bytes[..])
RcDeserialize ==
    /\ pc = "rc_encoded"
    /\ pc' = "rc_decoded"
    /\ \E src \in Inputs(enc.bytes, SliceTails, {<<>>}) :
          /\ input' = src
          /\ RcDecoded(Vec_Rc_deserialize_reader(uint_deserialize_reader(src, 4), rc_heap))
    /\ via' = "deserialize"
    /\ UNCHANGED <<ty, strict, ptr_width, w_cap, val, enc, other, enc2, reader_vars,
                   array_vars, async_vars, use_discriminant, rc_refs, r_reads, schema_vars>>

InitRc == InitWith({"Vec<Rc<u16>>"})
NextRc ==
    \/ RcNew
    \/ RcClone
    \/ RcSerialize
    \/ RcDeserialize
SpecRc == InitRc /\ [][NextRc]_vars

(***************************************************************************)
(* #[derive(BorshSchema)] on a struct: the add_definitions_recursively     *)
(* that process_struct generates, run over a definitions map that earlier  *)
(* collections may have filled.  The structs are those of the tests        *)
(* recursive_struct, generic_named_fields_struct_borsh_skip (instantiated) *)
(* and unit_struct.                                                        *)
(***************************************************************************)
Field(name, type, skip) == [name |-> name, ty |-> type, skip |-> skip]

ItemStruct ==
    ("CRecC" :> <<Field("a", "String", FALSE), Field("b", "HashMap<String, CRecC>", FALSE)>>)
    @@ ("G" :> <<Field("x", "HashMap<u8, u8>", TRUE), Field("y", "CRecC", FALSE)>>)
    @@ ("A" :> <<>>)

\* the types the definitions are collected for
SchemaRoots == {"CRecC", "G", "A", "HashMap<String, CRecC>", "(String, CRecC)", "String"}

\* helpers::contains_skip(&field.attrs)
contains_skip(field) == field.skip

\* fields_vec: (name, <field_type>::declaration()) of each field not skipped
fields_vec(t) ==
    LET kept == SelectSeq(ItemStruct[t], LAMBDA f : ~contains_skip(f))
    IN  [i \in 1..Len(kept) |-> <<kept[i].name, kept[i].ty>>]

\* add_definitions_recursively_rec: one call per field not skipped, in order
add_definitions_recursively_rec(t) ==
    LET kept == SelectSeq(ItemStruct[t], LAMBDA f : ~contains_skip(f))
    IN  [i \in 1..Len(kept) |-> kept[i].ty]

Definition(kind, fields) == [kind |-> kind, fields |-> fields]

\* let definition = Definition::Struct { fields };
struct_definition(t) ==
    Definition(IF fields_vec(t) = <<>> THEN "Struct/Empty" ELSE "Struct/NamedFields", fields_vec(t))

\* a flag that lets every call descend
no_recursion_flag_always(definitions, declaration) == TRUE

\* definitions.get(&Self::declaration()).is_none()
no_recursion_flag(definitions, declaration) ==
    ~(\E d \in definitions : d.decl = declaration)

\* BorshSchema::add_definition: a vacant entry is filled, an occupied one
\* must hold an equal definition
add_definition_conflict(declaration, definition, definitions) ==
    \E d \in definitions : d.decl = declaration /\ d.def # definition
add_definition(declaration, definition, definitions) ==
    IF \E d \in definitions : d.decl = declaration THEN definitions
    ELSE definitions \cup {[decl |-> declaration, def |-> definition]}

\* the definition a type registers for itself
own_definition(t) ==
    CASE t \in DOMAIN ItemStruct -> struct_definition(t)
      [] t = "HashMap<String, CRecC>" -> Definition("Sequence", << <<"elements", "(String, CRecC)">> >>)
      [] t = "HashMap<u8, u8>" -> Definition("Sequence", << <<"elements", "(u8, u8)">> >>)
      [] t = "(String, CRecC)" -> Definition("Tuple", << <<"0", "String">>, <<"1", "CRecC">> >>)
      [] t = "(u8, u8)" -> Definition("Tuple", << <<"0", "u8">>, <<"1", "u8">> >>)
      [] OTHER -> Definition("Primitive", <<>>)

\* the calls the body of <t>::add_definitions_recursively makes, in order
nested_calls(t, definitions) ==
    CASE t \in DOMAIN ItemStruct ->
            IF no_recursion_flag(definitions, t) THEN add_definitions_recursively_rec(t) ELSE <<>>
      [] t = "HashMap<String, CRecC>" -> <<"(String, CRecC)">>
      [] t = "HashMap<u8, u8>" -> <<"(u8, u8)">>
      [] t = "(String, CRecC)" -> <<"String", "CRecC">>
      [] t = "(u8, u8)" -> <<"u8", "u8">>
      [] OTHER -> <<>>

\* a primitive registers nothing
registers(t) == t \notin {"String", "u8"}

\* <root>::add_definitions_recursively(&mut definitions) is called
SchemaCall ==
    /\ pc \in {"idle", "schema_done"}
    /\ s_runs < MaxSchemaRuns
    /\ pc' = "schema"
    /\ \E root \in SchemaRoots : s_stack' = <<root>>
    /\ s_calls' = 0
    /\ s_runs' = s_runs + 1
    /\ UNCHANGED <<codec_vars, reader_vars, array_vars, async_vars, rc_vars, r_reads, s_defs>>

\* the body of the next call, up to the calls it makes itself
SchemaStep ==
    /\ pc = "schema"
    /\ s_stack # <<>>
    /\ s_calls < MaxSchemaCalls
    /\ s_calls' = s_calls + 1
    /\ LET t == Head(s_stack)
       IN  IF registers(t) /\ add_definition_conflict(t, own_definition(t), s_defs)
           THEN pc' = "schema_panic" /\ UNCHANGED <<s_defs, s_stack>>
           ELSE /\ pc' = pc
                /\ s_defs' = IF registers(t) THEN add_definition(t, own_definition(t), s_defs)
                             ELSE s_defs
                /\ s_stack' = nested_calls(t, s_defs) \o Tail(s_stack)
    /\ UNCHANGED <<codec_vars, reader_vars, array_vars, async_vars, rc_vars, r_reads, s_runs>>

\* the outermost call returns
SchemaReturn ==
    /\ pc = "schema"
    /\ s_stack = <<>>
    /\ pc' = "schema_done"
    /\ UNCHANGED <<codec_vars, reader_vars, array_vars, async_vars, derive_vars>>

InitSchema == InitWith({"()"})
NextSchema ==
    \/ SchemaCall
    \/ SchemaStep
    \/ SchemaReturn
\* every call that was made runs its body
SpecSchema == InitSchema /\ [][NextSchema]_vars /\ WF_vars(SchemaStep \/ SchemaReturn)

\* the bulk reader alone
InitReader == Init /\ ty = "Vec<u8>"
NextReader ==
    \/ VfrBegin
    \/ VfrStep
    \/ VfrReadFail
    \/ VfrReturn
SpecReader == InitReader /\ [][NextReader]_vars

\* a source whose read calls return: a pending pass of the loop is taken
FairReader == WF_vars(VfrStep \/ VfrReadFail) /\ WF_vars(VfrReturn)
SpecReaderLive == SpecReader /\ FairReader

(***************************************************************************)
(* <[T; N]>::deserialize_reader for a T without array_from_reader, one     *)
(* pass of fill_buffer's loop per step.  T is the MyType of the test       *)
(* array_deserialization_doesnt_leak: one byte per element, a destructor   *)
(* that counts, and a decode that may panic after its byte was read.       *)
(***************************************************************************)
\* <MyType as BorshDeserialize>::deserialize_reader up to the panic check
MyType_deserialize_reader(src) == read_bytes(src, 1)

\* let mut result = ArrayDropGuard { buffer: uninit, init_count: 0 };
ArrayBegin ==
    /\ pc \in {"idle", "arr_ok", "arr_gone", "arr_err", "arr_panic"}
    /\ a_runs < MaxDecodes
    /\ pc' = "arr_fill"
    /\ \E n \in 0..MaxArrayLen, m \in 0..MaxArrayLen :
          /\ a_n' = n
          /\ a_src' = [i \in 1..m |-> 0]
          /\ a_slots' = [i \in 1..n |-> "uninit"]
          /\ a_drops' = [i \in 1..n |-> 0]
    /\ a_init' = 0
    /\ a_runs' = a_runs + 1
    /\ UNCHANGED <<codec_vars, reader_vars, derive_vars, async_vars, a_made, a_freed>>

\* a guard that releases the whole buffer
init_range_whole(init_count, n) == 1..n

\* &mut self.buffer[..self.init_count]
init_range(init_count, n) == 1..init_count

\* core::ptr::drop_in_place over the slots of `range`
drop_in_place(slots, range) ==
    [i \in DOMAIN slots |->
        IF i \in range THEN (IF slots[i] = "live" THEN "dropped" ELSE "undefined")
        ELSE slots[i]]

\* <ArrayDropGuard as Drop>::drop as the failed decode leaves its scope
GuardDropped(exit) ==
    /\ pc' = exit
    /\ a_slots' = drop_in_place(a_slots, init_range(a_init, a_n))
    /\ a_drops' = [i \in DOMAIN a_drops |->
                      IF i \in init_range(a_init, a_n) THEN a_drops[i] + 1 ELSE a_drops[i]]
    /\ a_made' = a_made + Cardinality({i \in DOMAIN a_slots : a_slots[i] # "uninit"})
    /\ a_freed' = a_freed + Cardinality(init_range(a_init, a_n))

\* elem.write(f()?); self.init_count += 1;  with f() returning Ok
ArrayElemOk ==
    /\ pc = "arr_fill"
    /\ a_init < a_n
    /\ MyType_deserialize_reader(a_src).ok
    /\ a_slots' = [a_slots EXCEPT ![a_init + 1] = "live"]
    /\ a_init' = a_init + 1
    /\ a_src' = MyType_deserialize_reader(a_src).rest
    /\ UNCHANGED <<pc, codec_vars, reader_vars, derive_vars, async_vars, a_n, a_drops, a_made, a_freed, a_runs>>

\* f() returns Err: `?` leaves fill_buffer and deserialize_reader, the guard
\* goes out of scope
ArrayElemErr ==
    /\ pc = "arr_fill"
    /\ a_init < a_n
    /\ ~MyType_deserialize_reader(a_src).ok
    /\ GuardDropped("arr_err")
    /\ UNCHANGED <<codec_vars, reader_vars, derive_vars, async_vars, a_n, a_src, a_init, a_runs>>

\* f() panics once its byte is read: the unwinding drops the guard
ArrayElemPanic ==
    /\ pc = "arr_fill"
    /\ a_init < a_n
    /\ MyType_deserialize_reader(a_src).ok
    /\ a_src' = MyType_deserialize_reader(a_src).rest
    /\ GuardDropped("arr_panic")
    /\ UNCHANGED <<codec_vars, reader_vars, derive_vars, async_vars, a_n, a_init, a_runs>>

\* a conversion that leaves init_count as fill_buffer left it
transmute_keeps_count(init_count) == init_count

\* transmute_to_array: self.init_count = 0
transmute_init_count(init_count) == 0

\* fill_buffer returned Ok(()): transmute_to_array sets init_count to 0 and
\* reads the array out; the guard's drop then has nothing in its range
ArrayReturn ==
    /\ pc = "arr_fill"
    /\ a_init = a_n
    /\ pc' = "arr_ok"
    /\ a_init' = transmute_init_count(a_init)
    /\ a_slots' = drop_in_place(a_slots, init_range(transmute_init_count(a_init), a_n))
    /\ a_drops' = [i \in DOMAIN a_drops |->
                      IF i \in init_range(transmute_init_count(a_init), a_n)
                      THEN a_drops[i] + 1 ELSE a_drops[i]]
    /\ UNCHANGED <<codec_vars, reader_vars, derive_vars, async_vars, a_n, a_src, a_made, a_freed, a_runs>>

\* the caller lets go of the returned [T; N]: its elements are dropped
ArrayOwnerDrop ==
    /\ pc = "arr_ok"
    /\ pc' = "arr_gone"
    /\ a_slots' = drop_in_place(a_slots, 1..a_n)
    /\ a_drops' = [i \in DOMAIN a_drops |-> a_drops[i] + 1]
    /\ UNCHANGED <<codec_vars, reader_vars, derive_vars, async_vars, a_n, a_src, a_init, a_made, a_freed, a_runs>>

InitArray == Init /\ ty = "[u16; 2]"
NextArray ==
    \/ ArrayBegin
    \/ ArrayElemOk
    \/ ArrayElemErr
    \/ ArrayElemPanic
    \/ ArrayReturn
    \/ ArrayOwnerDrop
SpecArray == InitArray /\ [][NextArray]_vars

(***************************************************************************)
(* Vec<u8> decoded from sources that return short reads, reads of zero     *)
(* bytes, ErrorKind::Interrupted and transport failures.                   *)
(***************************************************************************)
BulkLens == {0, 1, 2, 3, 1000}
SourceItems == {7, 9, IoErrMark, IntrMark, CutMark, ZeroMark}

\* a reader is handed over: a u32 length, then what the source does next
BulkFeed ==
    /\ pc = "idle"
    /\ ty = "Vec<u8>"
    /\ pc' = "bulk_fed"
    /\ \E len \in BulkLens, payload \in SeqUpTo(SourceItems, MaxSourceItems) :
          input' = len_prefix(len) \o payload
    /\ UNCHANGED <<ty, strict, ptr_width, w_cap, val, enc, other, enc2, via, res, reader_vars, derive_vars,
                   array_vars, async_vars>>

\* <Vec<u8> as BorshDeserialize>::deserialize_reader(&mut reader)
BulkDecode ==
    /\ pc = "bulk_fed"
    /\ pc' = "bulk_decoded"
    /\ via' = "deserialize_reader"
    /\ res' = Vec_deserialize_reader("u8", input, strict, ptr_width)
    /\ UNCHANGED <<ty, strict, ptr_width, w_cap, val, enc, other, enc2, input, reader_vars, derive_vars,
                   array_vars, async_vars>>

InitBulk == Init /\ ty = "Vec<u8>"
NextBulk ==
    \/ BulkFeed
    \/ BulkDecode
SpecBulk == InitBulk /\ [][NextBulk]_vars

(***************************************************************************)
(* The async API next to the synchronous one: to_writer_async and          *)
(* from_reader_async's decode, polled until Ready, with the reader or      *)
(* writer answering Pending at any read or write.                          *)
(***************************************************************************)
AsyncTypes == {"u8", "u16", "bool", "Option<u8>", "(u8, u16)", "Vec<u8>", "Vec<u16>", "String",
               "[u8; 2]", "[u16; 2]"}

\* BorshSerializeAsync::serialize: the body of serialize with .await at
\* every write
serialize_async(t, v) == serialize(t, v)

\* to_vec(&v) is taken; to_writer_async(&mut buf, &v) starts
AsyncSerialize ==
    /\ pc = "idle"
    /\ ty \in AsyncTypes
    /\ pc' = "co_enc"
    /\ \E v \in Values(ty, ptr_width) :
          /\ val' = v
          /\ enc' = serialize(ty, v)
    /\ UNCHANGED <<ty, strict, ptr_width, w_cap, other, enc2, input, via, res, reader_vars, derive_vars,
                   array_vars, async_vars>>

\* writer.write_all(&bytes).await is Ready
AsyncWrite ==
    /\ pc = "co_enc"
    /\ ~k_wait
    /\ Len(k_writes) < Len(serialize_async(ty, val).writes)
    /\ k_writes' = Append(k_writes, serialize_async(ty, val).writes[Len(k_writes) + 1])
    /\ k_out' = k_out \o serialize_async(ty, val).writes[Len(k_writes) + 1]
    /\ UNCHANGED <<pc, codec_vars, reader_vars, derive_vars, array_vars, k_sync, k_async, k_wait, k_susp>>

\* the bytes written, or bytes of foreign origin, are handed to both decoders
Started(src) ==
    /\ pc' = "co_run"
    /\ input' = src
    /\ k_sync' = Machine(ty, src)
    /\ k_async' = Machine(ty, src)
    /\ k_susp' = 0
    /\ UNCHANGED <<ty, strict, ptr_width, w_cap, val, enc, other, enc2, via, res, reader_vars, derive_vars,
                   array_vars, k_wait, k_writes, k_out>>

AsyncWritten ==
    /\ pc = "co_enc"
    /\ ~k_wait
    /\ Len(k_writes) = Len(serialize_async(ty, val).writes)
    /\ \E src \in Inputs(k_out, ReaderTails, {<<>>, <<IoErrMark>>}) : Started(src)

AsyncFeed ==
    /\ pc = "idle"
    /\ ty \in AsyncTypes
    /\ \E src \in WireCandidates(ty) : Started(src)

\* BorshDeserialize::deserialize_reader runs on
SyncStep ==
    /\ pc = "co_run"
    /\ ~k_sync.done
    /\ k_sync' = step(k_sync, "sync")
    /\ UNCHANGED <<pc, codec_vars, reader_vars, derive_vars, array_vars, k_async, k_wait, k_susp,
                   k_writes, k_out>>

\* the future of BorshDeserializeAsync::deserialize_reader is polled and
\* runs up to its next .await
AsyncPoll ==
    /\ pc = "co_run"
    /\ k_sync.done
    /\ ~k_async.done
    /\ ~k_wait
    /\ k_async' = step(k_async, "async")
    /\ UNCHANGED <<pc, codec_vars, reader_vars, derive_vars, array_vars, k_sync, k_wait, k_susp,
                   k_writes, k_out>>

\* the reader or writer is not ready: the poll returns Pending
AsyncSuspend ==
    /\ ~k_wait
    /\ k_susp < MaxSuspends
    /\ \/ pc = "co_enc" /\ Len(k_writes) < Len(serialize_async(ty, val).writes)
       \/ pc = "co_run" /\ k_sync.done /\ ~k_async.done /\ AwaitsRead(k_async)
    /\ k_wait' = TRUE
    /\ k_susp' = k_susp + 1
    /\ UNCHANGED <<pc, codec_vars, reader_vars, derive_vars, array_vars, k_sync, k_async, k_writes, k_out>>

\* the waker fires and the future is polled again
AsyncResume ==
    /\ k_wait
    /\ k_wait' = FALSE
    /\ UNCHANGED <<pc, codec_vars, reader_vars, derive_vars, array_vars, k_sync, k_async, k_susp,
                   k_writes, k_out>>

InitAsync == Init /\ ty \in AsyncTypes
NextAsync ==
    \/ AsyncSerialize
    \/ AsyncWrite
    \/ AsyncWritten
    \/ AsyncFeed
    \/ SyncStep
    \/ AsyncPoll
    \/ AsyncSuspend
    \/ AsyncResume
SpecAsync == InitAsync /\ [][NextAsync]_vars

(***************************************************************************)
(* serialize into a writer that may fail.                                  *)
(***************************************************************************)
SinkCaps == 0..MaxSinkBytes \cup {NoLimit}

\* v.serialize(&mut writer)
SerializeInto ==
    /\ pc = "idle"
    /\ pc' = "written"
    /\ \E v \in Values(ty, ptr_width), cap \in SinkCaps :
          /\ val' = v
          /\ w_cap' = cap
          /\ enc' = serialize_into(ty, v, cap)
    /\ UNCHANGED <<ty, strict, ptr_width, other, enc2, input, via, res, reader_vars, derive_vars,
                   array_vars, async_vars>>

NextSink ==
    \/ SerializeInto
SpecSink == Init /\ [][NextSink]_vars

(***************************************************************************)
(* Properties.                                                             *)
(***************************************************************************)
DecodedStates == {"decoded", "fed_decoded"}
IsPrefix(a, b) == Len(a) <= Len(b) /\ Take(b, Len(a)) = a
Clean(src) == \A i \in 1..Len(src) : src[i] # IoErrMark

\* C1 (round trip): serializing a value v of a supported type T and
\* root-decoding exactly the bytes produced, with from_slice or with
\* from_reader over those bytes, succeeds and returns a value equal to v.
C1_RoundTrip ==
    (pc = "decoded" /\ via \in {"from_slice", "from_reader"} /\ enc.ok /\ input = enc.bytes)
        => (res.ok /\ ValEq(ty, res.val, val))

\* C2 (injective encoding): two values a, b of one type that both serialize
\* successfully and are not equal never serialize to the same bytes.
C2_Injective ==
    (pc = "paired" /\ enc.ok /\ enc2.ok /\ ~ValEq(ty, val, other))
        => enc.bytes # enc2.bytes

\* C3 (whole-buffer strictness): from_slice / try_from_slice return Ok(v) only
\* when decoding T consumed every byte of the slice, v being the decoded
\* value; when T decodes but at least one byte is left over they return
\* InvalidData "Not all bytes read".  So u8 from [5, 9] fails, while [5, 9]
\* decodes as a value of two u8 fields.
C3_WholeBufferStrict ==
    (pc \in DecodedStates /\ via \in {"from_slice", "try_from_slice"}) =>
        LET nested == deserialize_reader(ty, input, strict, ptr_width)
        IN  /\ res.ok => (nested.ok /\ nested.rest = <<>> /\ res.val = nested.val)
            /\ (nested.ok /\ nested.rest # <<>>) =>
                    (~res.ok /\ res.err = IoError("InvalidData", "Not all bytes read"))
            /\ (ty = "u8" /\ input = <<5, 9>>) => ~res.ok
            /\ (ty = "(u8, u8)" /\ input = <<5, 9>>) => (res.ok /\ res.val = <<5, 9>>)

C3_Witness ==
    /\ pc = "fed_decoded" /\ via = "from_slice" /\ ty = "u8" /\ input = <<5, 9>>
    /\ ~res.ok /\ res.err.kind = "InvalidData" /\ res.err.msg = "Not all bytes read"

\* C4 (root decode from a byte source): from_reader / try_from_reader return
\* Ok(v) if and only if the value decoded and the source is exhausted right
\* after it, v being the decoded value; if a further byte is available they
\* fail with "Not all bytes read".
C4_ReaderExhausted ==
    (pc \in DecodedStates /\ via \in {"from_reader", "try_from_reader"}) =>
        LET value == deserialize_reader(ty, input, strict, ptr_width)
        IN  /\ res.ok <=> (value.ok /\ value.rest = <<>>)
            /\ res.ok => res.val = value.val
            /\ (value.ok /\ value.rest # <<>> /\ Head(value.rest) # IoErrMark) =>
                    (~res.ok /\ res.err = IoError("InvalidData", "Not all bytes read"))

C4_Witness ==
    /\ pc = "decoded" /\ via = "try_from_reader" /\ ty = "Option<Vec<u8>>"
    /\ val = <<(<<3, 255>>)>> /\ input = enc.bytes \o <<9>>
    /\ ~res.ok /\ res.err.msg = "Not all bytes read"

\* C5 (a nested decode consumes exactly its own bytes): when the input
\* starts with serialize(v), a successful deserialize / deserialize_reader
\* of T leaves the source at exactly the bytes after serialize(v); and every
\* read the bulk byte reader issues asks for at most
\* declared length - bytes read so far.
C5_ExactConsumption ==
    /\ (pc = "decoded" /\ via \in {"deserialize", "deserialize_reader"}
            /\ enc.ok /\ IsPrefix(enc.bytes, input) /\ res.ok)
         => res.rest = Drop(input, Len(enc.bytes))
    /\ (pc \in {"vfr_loop", "vfr_ok", "vfr_err"})
         => LET before == IF r_got = ReadFailed THEN r_pos ELSE BigSub(r_pos, r_got)
            IN  BigLe(BigAdd(r_req, before), r_len)

C5_Witness ==
    /\ pc = "decoded" /\ via = "deserialize" /\ ty = "(Vec<u8>, u8)"
    /\ val = <<(<<5, 3>>), 255>> /\ input = enc.bytes \o <<0, 0>>
    /\ res.ok /\ res.rest = <<0, 0>>

ReaderStates == {"vfr_loop", "vfr_ok", "vfr_err"}

\* buffer length <= L and buffer length <= max(1 MiB, 2 * bytes read)
C6_Bound ==
    pc \in ReaderStates =>
        /\ BigLe(r_vec, r_len)
        /\ BigLe(r_vec, BigMax(Big(1, 0), BigAdd(r_pos, r_pos)))

\* the buffer starts at min(L, 1 MiB); it changes only when it is full, and
\* then to min(2 * its length, L)
C6_Growth ==
    /\ (pc = "idle" /\ pc' = "vfr_loop") => r_vec' = BigMin(r_len', Big(1, 0))
    /\ (pc = "vfr_loop") =>
            \/ r_vec' = r_vec
            \/ r_pos = r_vec /\ r_vec' = BigMin(BigAdd(r_vec, r_vec), r_len)

\* C6 (bounded speculative buffer): during vec_from_reader with declared
\* length L the buffer starts at min(L, 1 MiB) and grows only at a moment
\* when it is completely filled, then to min(2 * current length, L); in every
\* reachable state buffer length <= L and
\* buffer length <= max(1 MiB, 2 * bytes actually read).
C6_BoundedBuffer == []C6_Bound /\ [][C6_Growth]_vars

C6_Witness ==
    /\ pc = "vfr_loop" /\ r_len = U32Max /\ r_pos = Big(2, 1) /\ r_vec = Big(4, 0)

\* the declared length and the payload of a length-prefixed byte string
Declared(bytes) == from_le_bytes_unsigned(Take(bytes, 4))
PayloadItems(t, bytes) ==
    (Len(bytes) - 4) \div (IF Kind(t) = "vec" THEN TypeTable[TypeTable[t].a].w ELSE 1)

\* C7 (hostile length prefix): decoding a sequence whose declared length L
\* exceeds the payload the source yields never returns Ok; a read that
\* returns zero bytes before L bytes were collected fails the decode with
\* InvalidData "Unexpected length of input" (so does a source that ends
\* early, whatever the entry point); and with nothing read yet the buffer
\* holds at most 1 MiB, however large L is.
C7_HostileLength ==
    /\ (pc = "fed_decoded" /\ Kind(ty) \in {"vec", "string"} /\ Len(input) >= 4
            /\ Clean(Take(input, 4)) /\ PayloadItems(ty, input) < Declared(input))
         => /\ ~res.ok
            /\ Clean(input) => res.err = IoError("InvalidData", "Unexpected length of input")
    /\ (pc \in ReaderStates /\ BigLt(BigAdd(r_pos, r_src), r_len)) => pc # "vfr_ok"
    /\ pc = "vfr_ok" => r_pos = r_len
    /\ (pc = "vfr_err" /\ r_got = BigZero)
         => /\ r_err = IoError("InvalidData", "Unexpected length of input")
            /\ BigLt(r_pos, r_len)
    /\ (pc \in ReaderStates /\ r_pos = BigZero) => BigLe(r_vec, Big(1, 0))

C7_Witness ==
    /\ pc = "vfr_err" /\ r_len = U32Max /\ r_pos = Big(0, 10) /\ r_src = BigZero
    /\ r_got = BigZero /\ r_vec = Big(1, 0)
    /\ r_err = IoError("InvalidData", "Unexpected length of input")

\* the keys of a map / set payload in wire order
WireEntries ==
    IF Kind(ty) \in MapKinds
    THEN Vec_deserialize_reader("(u8, u8)", input, FALSE, ptr_width)
    ELSE Vec_deserialize_reader("u8", input, FALSE, ptr_width)
WireKeys == IF Kind(ty) \in MapKinds THEN Keys(WireEntries.val) ELSE WireEntries.val

\* C8 (strict-order decode): with strict-order mode on, decoding a HashMap,
\* HashSet, BTreeMap or BTreeSet whose payload has a key that is not strictly
\* less than its successor in wire order (a descending pair, a duplicate)
\* fails with InvalidData "keys were not serialized in ascending order",
\* through every entry point, and returns no collection.
C8_StrictOrder ==
    (pc = "fed_decoded" /\ strict /\ Kind(ty) \in {"hashmap", "hashset", "btreemap", "btreeset"}
        /\ WireEntries.ok
        /\ \E i \in 1..Len(WireKeys) - 1 : ~(WireKeys[i] < WireKeys[i + 1]))
    => /\ ~res.ok
       /\ res.val = <<>>
       /\ res.err = IoError("InvalidData", "keys were not serialized in ascending order")

C8_Witness ==
    /\ pc = "fed_decoded" /\ strict /\ ty = "HashMap<u8, u8>" /\ via = "from_slice"
    /\ input = <<2, 0, 0, 0, 5, 3, 5, 255>>
    /\ res.err.msg = "keys were not serialized in ascending order"

\* C9 (relaxed-mode decode): with strict-order mode off, decoding a map or
\* set accepts the entries in any key order and with duplicates; the decoded
\* collection has one entry per distinct key, and a map holds for each key
\* the value of its last occurrence in wire order.
C9_Relaxed ==
    (pc = "fed_decoded" /\ ~strict /\ Kind(ty) \in MapKinds \cup SetKinds
        /\ Clean(input) /\ WireEntries.ok /\ WireEntries.rest = <<>>)
    => /\ res.ok
       /\ Len(res.val) = Cardinality(Range(WireKeys))
       /\ IF Kind(ty) \in MapKinds
          THEN /\ Range(Keys(res.val)) = Range(WireKeys)
               /\ \A i \in 1..Len(WireKeys) :
                     (\A j \in (i + 1)..Len(WireKeys) : WireKeys[j] # WireKeys[i])
                        => WireEntries.val[i] \in Range(res.val)
          ELSE Range(res.val) = Range(WireKeys)

C9_Witness ==
    /\ pc = "fed_decoded" /\ ~strict /\ ty = "HashMap<u8, u8>" /\ via = "from_slice"
    /\ input = <<2, 0, 0, 0, 5, 3, 5, 255>>
    /\ res.ok /\ res.val = << <<5, 255>> >>

\* C10 (deterministic map / set encoding): two hash-ordered maps (or sets)
\* holding the same entries serialize to the same bytes whatever their
\* iteration order: the u32 count, then the entries in ascending key order.
C10_Deterministic ==
    (pc = "paired" /\ Kind(ty) \in HashKinds /\ Range(val) = Range(other))
    => /\ enc.ok /\ enc2.ok
       /\ enc.bytes = enc2.bytes
       /\ IF Kind(ty) \in MapKinds
          THEN \E s \in Values("BTreeMap<u8, u8>", ptr_width) :
                  /\ Range(s) = Range(val)
                  /\ enc.bytes = to_le_bytes(Len(s), 4)
                        \o Flatten([i \in 1..Len(s) |-> <<s[i][1], s[i][2]>>])
          ELSE \E s \in Values("BTreeSet<u8>", ptr_width) :
                  /\ Range(s) = Range(val)
                  /\ enc.bytes = to_le_bytes(Len(s), 4) \o s

C10_Witness ==
    /\ pc = "paired" /\ ty = "HashMap<u8, u8>"
    /\ val = << <<5, 3>>, <<3, 255>> >> /\ other = << <<3, 255>>, <<5, 3>> >>
    /\ enc.bytes = <<2, 0, 0, 0, 3, 255, 5, 3>> /\ enc2.bytes = enc.bytes

\* the little-endian bytes of the items of a sequence of unsigned integers,
\* one item after the other in index order
ItemsLe(t, items) ==
    Flatten([i \in 1..Len(items) |->
        [j \in 1..TypeTable[t].w |-> (items[i] \div Pow256(j - 1)) % 256]])

\* C11 (dynamic sequence wire format): serializing a sequence of n elements
\* writes the 4-byte little-endian u32 value n, then the encodings of the n
\* elements in index order, and nothing else ([1u32, 2u32] gives
\* 02 00 00 00 01 00 00 00 02 00 00 00); decoding those bytes yields the
\* same sequence.
C11_SequenceWire ==
    (pc \in {"encoded", "decoded"} /\ Kind(ty) = "vec") =>
        /\ enc.ok
        /\ enc.bytes = <<Len(val) % 256, (Len(val) \div 256) % 256, 0, 0>>
                            \o ItemsLe(TypeTable[ty].a, val)
        /\ (ty = "Vec<u32>" /\ val = <<1, 2>>)
                => enc.bytes = <<2, 0, 0, 0, 1, 0, 0, 0, 2, 0, 0, 0>>
        /\ (pc = "decoded" /\ input = enc.bytes) => (res.ok /\ res.val = val)

C11_Witness ==
    /\ pc = "decoded" /\ via = "from_slice" /\ ty = "Vec<u32>" /\ val = <<1, 2>>
    /\ input = <<2, 0, 0, 0, 1, 0, 0, 0, 2, 0, 0, 0>> /\ input = enc.bytes
    /\ res.ok /\ res.val = <<1, 2>>

\* C12 (fixed-array partial-construction cleanup): when the k-th element
\* decode (k < N) of an element-by-element [T; N] decode returns an error or
\* panics, each of the k elements already decoded is destroyed exactly once
\* and no uninitialized slot is destroyed; after any sequence of array
\* decodes the destructions made for failed decodes equal the elements that
\* were constructed in them.
C12_ArrayCleanup ==
    /\ pc \in {"arr_err", "arr_panic"} =>
          /\ a_init < a_n
          /\ \A i \in 1..a_n :
                IF i <= a_init
                THEN a_slots[i] = "dropped" /\ a_drops[i] = 1
                ELSE a_slots[i] = "uninit" /\ a_drops[i] = 0
    /\ pc \in {"arr_fill", "arr_ok"} =>
          \A i \in 1..a_n : a_slots[i] \in {"uninit", "live"} /\ a_drops[i] = 0
    /\ pc \in {"arr_fill", "arr_ok", "arr_err", "arr_panic"} => a_freed = a_made

C12_Witness ==
    /\ pc = "arr_panic" /\ a_runs = 2 /\ a_n = 3 /\ a_init = 2
    /\ a_slots = <<"dropped", "dropped", "uninit">> /\ a_drops = <<1, 1, 0>>
    /\ a_made = 3 /\ a_freed = 3

\* the position of the first failure in a source that holds one
FirstMark(src) == CHOOSE i \in 1..Len(src) : src[i] = IoErrMark /\ Clean(Take(src, i - 1))

\* C13 (source I/O failures are passed through): a failure returned by the
\* byte source that is not end-of-input comes back from deserialize_reader,
\* from_reader and try_from_reader (their trailing-data check included)
\* unchanged, with the same kind; it is never swallowed or replaced.
C13_Passthrough ==
    (pc \in DecodedStates /\ via \in {"deserialize_reader", "from_reader", "try_from_reader"}
        /\ ~Clean(input) /\ Len(res.rest) <= Len(input) - FirstMark(input))
    => (~res.ok /\ res.err = TransportFailure)

\* the bytes a decode took from the source
Consumed(src, rest) ==
    Len(SelectSeq(src, LAMBDA b : b >= 0)) - Len(SelectSeq(rest, LAMBDA b : b >= 0))

\* C14 (the bulk byte path equals the naive loop): for every declared length
\* and every byte source, with short reads, reads of zero bytes and errors,
\* decoding Vec<u8> through vec_from_reader gives the outcome of decoding
\* it element by element with u8::deserialize_reader: the same Ok value or
\* the same error, and the same number of bytes consumed.
C14_BulkEqualsNaive ==
    pc = "bulk_decoded" =>
        LET naive == Vec_deserialize_reader_naive("u8", input, strict, ptr_width)
        IN  /\ res.ok = naive.ok
            /\ res.val = naive.val
            /\ res.err = naive.err
            /\ Consumed(input, res.rest) = Consumed(input, naive.rest)

C16_NoPartialEncode ==
    pc = "written" =>
        LET canon == serialize(ty, val)
            failed == w_cap # NoLimit /\ w_cap < Len(canon.bytes)
        IN  /\ enc.ok => (~failed /\ canon.ok /\ enc.bytes = canon.bytes
                            /\ enc.writes = canon.writes)
            /\ failed =>
                  /\ ~enc.ok
                  /\ enc.err = TransportFailure
                  /\ IsPrefix(enc.bytes, canon.bytes)
                  /\ Len(enc.bytes) = w_cap
                  /\ IsPrefix(enc.writes, canon.writes)
                  /\ Len(Flatten(Take(enc.writes, Len(enc.writes) - 1))) <= w_cap
                  /\ w_cap < Len(Flatten(enc.writes))

C16_Witness ==
    /\ pc = "written" /\ ty = "(Vec<u8>, u8)" /\ val = <<(<<5, 3>>), 255>> /\ w_cap = 5
    /\ ~enc.ok /\ enc.err = TransportFailure /\ enc.bytes = <<2, 0, 0, 0, 5>>
    /\ enc.writes = << <<2, 0, 0, 0>>, <<5, 3>> >>

\* C17 (optional value): None encodes as the single byte 0 and Some(x) as
\* the byte 1 followed by the encoding of x; decoding reads one tag byte and
\* returns None for 0, Some(decode T) for 1, and for every other tag an
\* InvalidData error naming the offending byte, never a default value.
C17_Option ==
    /\ (pc \in {"encoded", "decoded"} /\ Kind(ty) = "option") =>
          /\ enc.ok
          /\ enc.bytes = IF val = <<>> THEN <<0>>
                         ELSE <<1>> \o serialize(TypeTable[ty].a, val[1]).bytes
    /\ (pc \in DecodedStates /\ Kind(ty) = "option" /\ input # <<>> /\ Head(input) >= 0) =>
          LET tag == Head(input)
              inner == deserialize_reader(TypeTable[ty].a, Tail(input), strict, ptr_width)
          IN  /\ (tag = 0 /\ via \in {"deserialize", "deserialize_reader"})
                    => res = Ok(<<>>, Tail(input))
              /\ (tag = 1 /\ via \in {"deserialize", "deserialize_reader"})
                    => /\ res.ok = inner.ok
                       /\ res.rest = inner.rest
                       /\ res.err = inner.err
                       /\ res.ok => res.val = <<inner.val>>
              /\ tag \notin {0, 1}
                    => /\ ~res.ok
                       /\ res.val = <<>>
                       /\ res.err = [kind |-> "InvalidData",
                                     msg |-> "Invalid Option representation", byte |-> tag]

C17_Witness ==
    /\ pc = "fed_decoded" /\ ty = "Option<u8>" /\ via = "from_slice" /\ input = <<2>>
    /\ ~res.ok /\ res.err.kind = "InvalidData" /\ res.err.byte = 2

\* C18 (two-branch union): Result encodes Err(e) as tag 0 followed by the
\* encoding of e and Ok(v) as tag 1 followed by the encoding of v; decode
\* maps tag 0 to Err(decode E), tag 1 to Ok(decode T), and fails with
\* InvalidData "Invalid Result representation" for every other tag.
C18_Result ==
    /\ (pc \in {"encoded", "decoded"} /\ Kind(ty) = "result") =>
          /\ enc.ok
          /\ enc.bytes = IF val.ok THEN <<1>> \o serialize(TypeTable[ty].a, val.v).bytes
                         ELSE <<0>> \o serialize(TypeTable[ty].b, val.v).bytes
    /\ (pc \in DecodedStates /\ Kind(ty) = "result" /\ input # <<>> /\ Head(input) >= 0) =>
          LET tag == Head(input)
              branch == IF tag = 1 THEN TypeTable[ty].a ELSE TypeTable[ty].b
              inner == deserialize_reader(branch, Tail(input), strict, ptr_width)
          IN  /\ (tag \in {0, 1} /\ via \in {"deserialize", "deserialize_reader"})
                    => /\ res.ok = inner.ok
                       /\ res.rest = inner.rest
                       /\ res.err = inner.err
                       /\ res.ok => res.val = [ok |-> (tag = 1), v |-> inner.val]
              /\ tag \notin {0, 1}
                    => /\ ~res.ok
                       /\ res.err = [kind |-> "InvalidData",
                                     msg |-> "Invalid Result representation", byte |-> tag]

C18_Witness ==
    /\ pc = "decoded" /\ ty = "Result<u8, u16>" /\ via = "deserialize_reader"
    /\ val = [ok |-> FALSE, v |-> 256] /\ enc.bytes = <<0, 0, 1>> /\ input = <<0, 0, 1>>
    /\ res.ok /\ res.val = [ok |-> FALSE, v |-> 256]

\* the 64-bit value stored in 8 little-endian bytes, as <<h, m, l>> with h
\* read as unsigned (u64) or signed (i64)
Stored(bytes, signed) ==
    LET h == bytes[7] + 256 * bytes[8]
    IN  <<IF signed /\ h >= 32768 THEN h - 65536 ELSE h,
          bytes[4] + 256 * bytes[5] + 65536 * bytes[6],
          bytes[1] + 256 * bytes[2] + 65536 * bytes[3]>>

\* the value fits a 32-bit usize (below 2^32) / isize (-2^31 .. 2^31 - 1)
Fits32(v, signed) ==
    IF signed
    THEN (v[1] = 0 /\ v[2] <= 127) \/ (v[1] = -1 /\ v[2] >= 16777088)
    ELSE v[1] = 0 /\ v[2] <= 255

\* C19 (platform-width integers): usize and isize are always encoded as
\* exactly 8 bytes, the little-endian u64 / i64 representation of the
\* value; decoding reads 8 bytes and, if the stored value does not fit the
\* receiving platform's usize / isize (2^40 on a 32-bit target), fails with
\* the "Overflow on machine with 32 bit usize / isize" error instead of
\* truncating; otherwise it returns the stored value.
C19_PlatformWidth ==
    /\ (pc \in {"encoded", "decoded"} /\ Kind(ty) \in {"usize", "isize"}) =>
          /\ enc.ok
          /\ Len(enc.bytes) = 8
          /\ Stored(enc.bytes, ty = "isize") = val
    /\ (pc \in DecodedStates /\ Kind(ty) \in {"usize", "isize"}
            /\ Len(input) >= 8 /\ Clean(Take(input, 8))) =>
          LET stored == Stored(input, ty = "isize")
          IN  IF ptr_width = 64 \/ Fits32(stored, ty = "isize")
              THEN via \in {"deserialize", "deserialize_reader"}
                      => res = Ok(stored, Drop(input, 8))
              ELSE /\ ~res.ok
                   /\ res.err = [kind |-> "InvalidData", byte |-> -1,
                                 msg |-> IF ty = "isize"
                                         THEN "Overflow on machine with 32 bit isize"
                                         ELSE "Overflow on machine with 32 bit usize"]

C19_Witness ==
    /\ pc = "fed_decoded" /\ ty = "usize" /\ ptr_width = 32 /\ via = "from_slice"
    /\ input = <<0, 0, 0, 0, 0, 1, 0, 0>>
    /\ ~res.ok /\ res.err.msg = "Overflow on machine with 32 bit usize"

\* the little-endian bit pattern in the first w bytes is a NaN encoding:
\* exponent bits all ones and some fraction bit set
NanBits(bytes, w) ==
    IF w = 4
    THEN /\ bytes[4] % 128 = 127 /\ bytes[3] >= 128
         /\ (bytes[3] # 128 \/ bytes[2] # 0 \/ bytes[1] # 0)
    ELSE /\ bytes[8] % 128 = 127 /\ bytes[7] >= 240
         /\ (bytes[7] # 240 \/ \E i \in 1..6 : bytes[i] # 0)

\* C20 (NaN rejection in both directions): serializing an f32 / f64 whose
\* bit pattern is any NaN encoding returns an InvalidData error, and
\* decoding 4 / 8 bytes whose little-endian bit pattern is any NaN encoding
\* returns an InvalidData error; every non-NaN bit pattern (infinities and
\* both zeros included) is written and read back bit for bit.
C20_NanRejection ==
    LET w == TypeTable[ty].w
        nested == via \in {"deserialize", "deserialize_reader"}
    IN  /\ (pc \in {"encoded", "decoded"} /\ Kind(ty) = "float") =>
              IF val.exp = ExpMax(w) /\ (val.hi # 0 \/ val.lo # 0)
              THEN ~enc.ok /\ enc.err.kind = "InvalidData" /\ enc.bytes = <<>>
              ELSE /\ enc.ok /\ Len(enc.bytes) = w /\ ~NanBits(enc.bytes, w)
                   /\ (val = Float(0, 0, 0, 0)) => enc.bytes = [i \in 1..w |-> 0]
                   /\ (val = Float(1, 0, 0, 0))
                         => enc.bytes = [i \in 1..w |-> IF i = w THEN 128 ELSE 0]
                   /\ (val = Float(0, 127, 0, 0) /\ w = 4) => enc.bytes = <<0, 0, 128, 63>>
                   /\ (val = Float(1, 255, 0, 0) /\ w = 4) => enc.bytes = <<0, 0, 128, 255>>
                   /\ (val = Float(0, 2047, 0, 0) /\ w = 8)
                         => enc.bytes = <<0, 0, 0, 0, 0, 0, 240, 127>>
                   /\ (pc = "decoded" /\ nested /\ Len(input) >= w /\ Take(input, w) = enc.bytes)
                         => res.ok /\ res.val = val
        /\ (pc \in DecodedStates /\ Kind(ty) = "float"
            /\ Len(input) >= w /\ Clean(Take(input, w))) =>
              IF NanBits(input, w)
              THEN ~res.ok /\ res.err.kind = "InvalidData"
              ELSE nested => /\ res.ok /\ res.rest = Drop(input, w)
                             /\ serialize(ty, res.val).bytes = Take(input, w)

C20_Witness ==
    /\ pc = "fed_decoded" /\ ty = "f64" /\ via = "deserialize"
    /\ input = <<1, 0, 0, 0, 0, 0, 240, 127>>
    /\ ~res.ok /\ res.err.kind = "InvalidData"

\* C21 (boolean): false encodes as the single byte 0 and true as the single
\* byte 1; decoding one byte returns false for 0, true for 1, and for each
\* of the other 254 byte values an InvalidData error whose message carries
\* the offending byte.
C21_Bool ==
    /\ (pc \in {"encoded", "decoded"} /\ ty = "bool") =>
          /\ enc.ok
          /\ enc.bytes = IF val THEN <<1>> ELSE <<0>>
    /\ (pc \in DecodedStates /\ ty = "bool" /\ input # <<>> /\ Head(input) >= 0) =>
          LET b == Head(input)
              nested == via \in {"deserialize", "deserialize_reader"}
          IN  /\ (b = 0 /\ nested) => res = Ok(FALSE, Tail(input))
              /\ (b = 1 /\ nested) => res = Ok(TRUE, Tail(input))
              /\ (b \in {0, 1} /\ res.ok) => res.val = (b = 1)
              /\ b \notin {0, 1}
                    => /\ ~res.ok
                       /\ res.err = [kind |-> "InvalidData",
                                     msg |-> "Invalid bool representation", byte |-> b]

C21_Witness ==
    /\ pc = "fed_decoded" /\ ty = "bool" /\ via = "deserialize" /\ input = <<255>>
    /\ ~res.ok /\ res.err.kind = "InvalidData" /\ res.err.byte = 255

ZstError == IoError("InvalidData", "Collections of zero-sized types are not allowed")

\* C22 (zero-sized element types): for every dynamic sequence type (slice,
\* Vec, VecDeque, LinkedList) and every map / set type whose element or key
\* type is zero-sized, serialize returns the zero-sized-type error and
\* deserialize returns the zero-sized-type error, whatever the length and
\* whatever the input bytes.
C22_ZstRejected ==
    (ty \in ZstTypes) =>
        /\ (pc \in {"encoded", "decoded"}) => ~enc.ok /\ enc.err = ZstError
        /\ (pc \in DecodedStates) => ~res.ok /\ res.err = ZstError

\* the reads of a decode after the one that read the declared length
PayloadReads(m) == SubSeq(m.trace, 2, Len(m.trace))

C24_Discriminants ==
    LET decl == EnumDecl(ty)
        plain == \A i \in 1..Len(decl) : decl[i].literal = NoLiteral
    IN  (Kind(ty) = "enum") =>
        /\ (pc \in {"encoded", "decoded"}) =>
              /\ enc.ok
              /\ (~use_discriminant \/ plain) => Head(enc.bytes) = val.variant - 1
              /\ (use_discriminant /\ decl[val.variant].literal # NoLiteral)
                    => Head(enc.bytes) = decl[val.variant].literal
              /\ (ty = "A" /\ val.variant = 2)
                    => enc.bytes = IF use_discriminant THEN <<10>> ELSE <<1>>
        /\ (pc \in DecodedStates /\ input # <<>> /\ (~use_discriminant \/ plain)) =>
              IF Head(input) < Len(decl)
              THEN res.ok => res.val.variant = Head(input) + 1
              ELSE ~res.ok /\ res.err.kind = "InvalidData" /\ res.err.byte = Head(input)
        /\ (pc \in DecodedStates /\ ty = "MyEnum" /\ input = <<0>>)
              => res = Ok([variant |-> 1, field |-> <<>>], <<>>)
        /\ (pc \in DecodedStates /\ ty = "MyEnum" /\ input = <<2, 0, 0, 0, 0>>)
              => res = Ok([variant |-> 3, field |-> <<>>], <<>>)
        /\ (pc \in DecodedStates /\ ty = "A" /\ use_discriminant /\ input = <<10>>)
              => res = Ok([variant |-> 2, field |-> <<>>], <<>>)

C24_Witness ==
    /\ pc = "decoded" /\ ty = "A" /\ ~use_discriminant /\ val.variant = 2
    /\ enc.bytes = <<1>> /\ input = <<1>> /\ res.ok /\ res.val.variant = 2

\* C25 (non-zero integer wrappers): decoding a NonZero integer type reads
\* the underlying fixed-width integer and returns InvalidData "Expected a
\* non-zero value" exactly when the decoded integer is zero; for every
\* non-zero stored value it returns that value, and encoding writes the
\* same bytes as the underlying integer.
C25_NonZero ==
    LET w == TypeTable[ty].w
        under == TypeTable[ty].a
        nested == via \in {"deserialize", "deserialize_reader"}
    IN  (Kind(ty) = "nonzero") =>
        /\ (pc \in {"encoded", "decoded"}) =>
              /\ enc = serialize(under, val)
              /\ enc.ok /\ Len(enc.bytes) = w
        /\ (pc \in DecodedStates /\ Len(input) >= w /\ Clean(Take(input, w))) =>
              LET stored == deserialize_reader(under, input, strict, ptr_width)
                  zero == \A i \in 1..w : input[i] = 0
              IN  /\ stored.ok
                  /\ zero <=> (~res.ok /\ res.err = IoError("InvalidData",
                                                              "Expected a non-zero value"))
                  /\ (~zero /\ nested) => res = stored /\ res.val # 0
                  /\ (~zero /\ res.ok) => res.val = stored.val
        /\ (pc = "decoded" /\ nested /\ Len(input) >= w /\ Take(input, w) = enc.bytes)
              => res.ok /\ res.val = val

C25_Witness ==
    /\ pc = "fed_decoded" /\ ty = "NonZeroI32" /\ via = "deserialize"
    /\ input = <<0, 0, 0, 0, 0>>
    /\ ~res.ok /\ res.err.msg = "Expected a non-zero value" /\ res.rest = <<0>>

\* the reads made never target an empty slice; the count of bytes read
\* stays within L and within the buffer; success means a buffer of exactly
\* L bytes, filled by at most L reads
C28_Bounds ==
    pc \in ReaderStates =>
        /\ BigLe(r_pos, r_vec) /\ BigLe(r_vec, r_len)
        /\ r_reads > 0 => BigLt(BigZero, r_req)
        /\ pc = "vfr_loop" => BigLe(Big(0, r_reads), r_pos)
        /\ pc = "vfr_ok" =>
              /\ r_pos = r_len /\ r_vec = r_len /\ r_err = NoError
              /\ BigLe(Big(0, r_reads), r_len)
        /\ pc = "vfr_err" => r_err # NoError /\ BigLt(r_pos, r_len)

\* a pass of the loop asks for the whole free part of the grown buffer, which
\* is not empty, and either returns an error or reads at least one byte
C28_Pass ==
    (pc = "vfr_loop" /\ r_reads' = r_reads + 1)
    => /\ BigLt(r_pos, r_vec') /\ r_req' = BigSub(r_vec', r_pos)
       /\ \/ pc' = "vfr_err" /\ r_pos' = r_pos
          \/ pc' = "vfr_loop" /\ BigLt(r_pos, r_pos') /\ r_pos' = BigAdd(r_pos, r_got')
                /\ BigLe(r_got', r_req')

\* C28 (the bounded reader loop terminates and makes progress): for every
\* declared length L > 0 and every source whose read calls return,
\* vec_from_reader never issues a read into an empty target slice, each pass
\* either returns an error or strictly increases the count of bytes read,
\* the count never exceeds L, the loop ends, and on success the returned
\* buffer has length exactly L after at most L reads.
C28_LoopProgress ==
    /\ []C28_Bounds
    /\ [][C28_Pass]_vars
    /\ (pc = "vfr_loop") ~> (pc \in {"vfr_ok", "vfr_err"})

C28_Witness ==
    /\ pc = "vfr_ok" /\ r_len = Big(3, 5) /\ r_vec = r_len /\ r_reads >= 4 /\ r_small = 2

\* init_count is the number of written slots, which are the first ones; the
\* returned array is whole and untouched by the guard; its owner's drop is
\* the only destruction of each element
C29_Slots ==
    /\ pc = "arr_fill" =>
          /\ a_init <= a_n
          /\ a_init = Cardinality({i \in 1..a_n : a_slots[i] # "uninit"})
          /\ \A i \in 1..a_n :
                a_slots[i] = (IF i <= a_init THEN "live" ELSE "uninit") /\ a_drops[i] = 0
    /\ pc = "arr_ok" =>
          a_init = 0 /\ \A i \in 1..a_n : a_slots[i] = "live" /\ a_drops[i] = 0
    /\ pc = "arr_gone" =>
          \A i \in 1..a_n : a_slots[i] = "dropped" /\ a_drops[i] = 1

\* init_count moves by one, to a slot written by then; the conversion to the
\* array happens at init_count = N and resets it
C29_Steps ==
    /\ (pc = "arr_fill" /\ pc' = "arr_fill" /\ a_init' # a_init) =>
          /\ a_init' = a_init + 1
          /\ a_slots[a_init'] = "uninit" /\ a_slots'[a_init'] = "live"
    /\ (pc = "arr_fill" /\ pc' = "arr_ok") => (a_init = a_n /\ a_init' = 0)
    /\ (pc = "arr_fill" /\ pc' \in {"arr_err", "arr_panic"}) => a_init' = a_init

\* C29 (array drop-guard invariant): throughout the element-wise decode of
\* [T; N], init_count equals the number of buffer slots that have been
\* written, is incremented only after the slot was written, and never
\* exceeds N; on success init_count is N when the buffer is converted to the
\* array and is reset to 0 before the guard is released, so the guard
\* destroys no element and each element of the returned array is destroyed
\* exactly once, by its owner, never twice.
C29_DropGuard == []C29_Slots /\ [][C29_Steps]_vars

C29_Witness ==
    /\ pc = "arr_gone" /\ a_n = 3 /\ a_init = 0
    /\ a_slots = <<"dropped", "dropped", "dropped">> /\ a_drops = <<1, 1, 1>>

SchemaDecls == {d.decl : d \in s_defs}
SchemaDef(t) == (CHOOSE d \in s_defs : d.decl = t).def

\* no call is cut short, no definition is redefined, and a registered struct
\* lists exactly its fields that are not skipped; the type of a skipped
\* field is neither registered nor called
C30_Definitions ==
    /\ pc # "schema_panic"
    /\ s_calls < MaxSchemaCalls
    /\ \A t \in DOMAIN ItemStruct \cap SchemaDecls :
          /\ Len(SchemaDef(t).fields)
                = Cardinality({i \in 1..Len(ItemStruct[t]) : ~ItemStruct[t][i].skip})
          /\ \A i \in 1..Len(ItemStruct[t]) :
                ItemStruct[t][i].skip <=>
                    ~(\E j \in 1..Len(SchemaDef(t).fields) :
                          SchemaDef(t).fields[j] = <<ItemStruct[t][i].name, ItemStruct[t][i].ty>>)
    /\ \A t \in {"HashMap<u8, u8>", "(u8, u8)", "u8"} :
          t \notin SchemaDecls /\ t \notin Range(s_stack)

\* a struct's call registers the struct and makes the calls for its fields
\* that are not skipped exactly when its declaration was absent before
C30_Descent ==
    (pc = "schema" /\ s_calls' = s_calls + 1 /\ Head(s_stack) \in DOMAIN ItemStruct)
    => LET t == Head(s_stack)
           kept == SelectSeq(ItemStruct[t], LAMBDA f : ~f.skip)
       IN  /\ t \in {d.decl : d \in s_defs'}
           /\ IF t \in SchemaDecls
              THEN s_stack' = Tail(s_stack) /\ s_defs' = s_defs
              ELSE s_stack' = [i \in 1..Len(kept) |-> kept[i].ty] \o Tail(s_stack)

C27_CanonicalClosure ==
    (pc \in {"encoded", "decoded"} /\ Kind(ty) \in StrictKinds)
    => /\ enc.ok
       /\ (input = enc.bytes) =>
             /\ WireEntries.ok /\ WireEntries.rest = <<>>
             /\ Len(WireKeys) = Len(val)
             /\ Ascending(WireKeys)
             /\ DistinctKeys(WireKeys)
             /\ Range(WireEntries.val) = Range(val)
             /\ strict_order_check(WireEntries, WireKeys, TRUE).ok
             /\ (pc = "decoded") => (res.ok /\ res.rest = <<>> /\ ValEq(ty, res.val, val))

C27_Witness ==
    /\ pc = "decoded" /\ strict /\ ty = "HashSet<u8>" /\ val = <<5, 3>>
    /\ input = <<2, 0, 0, 0, 3, 5>> /\ res.ok /\ Range(res.val) = {3, 5}

\* occurrences of the address a in refs
Occurrences(refs, a) == Cardinality({i \in 1..Len(refs) : refs[i] = a})

\* C26 (shared ownership is not deduplicated): serializing a structure that
\* references one Rc / Arc instance k times writes the contents k times, and
\* decoding yields k independent instances; every Rc / Arc produced by
\* decode has a strong count of 1 and is never aliased with another decoded
\* value.
C26_NoDedup ==
    /\ (pc \in {"rc_encoded", "rc_decoded"}) =>
          /\ enc.ok
          /\ Len(enc.bytes) = 4 + 2 * Len(rc_refs)
          /\ Take(enc.bytes, 4) = to_le_bytes(Len(rc_refs), 4)
          /\ \A i \in 1..Len(rc_refs) :
                SubSeq(enc.bytes, 3 + 2 * i, 4 + 2 * i) = to_le_bytes(rc_heap[rc_refs[i]].val, 2)
          /\ \A a \in Range(rc_refs) : rc_heap[a].strong = Occurrences(rc_refs, a)
    /\ (pc = "rc_decoded" /\ Len(input) >= Len(enc.bytes)) =>
          /\ res.ok
          /\ Len(rc_out) = Len(rc_refs)
          /\ \A i \in 1..Len(rc_out) :
                /\ rc_heap[rc_out[i]].strong = 1
                /\ rc_heap[rc_out[i]].val = rc_heap[rc_refs[i]].val
                /\ rc_out[i] \notin Range(rc_refs)
                /\ \A j \in 1..Len(rc_out) : i # j => rc_out[i] # rc_out[j]
    /\ (pc = "rc_decoded" /\ ~res.ok) =>
          /\ rc_out = <<>>
          /\ \A a \in 1..Len(rc_heap) : a \notin Range(rc_refs) => rc_heap[a].strong = 0

C26_Witness ==
    /\ pc = "rc_decoded" /\ rc_refs = <<1, 1, 1>> /\ res.ok
    /\ rc_out = <<2, 3, 4>> /\ rc_heap[1].strong = 3

====
